---------------------------- MODULE Spec2Model ----------------------------
(***************************************************************************)
(* A model of systole/detection.py: the RR artefact classifier             *)
(* (rr_artefacts) and the peak detectors (ppg_peaks, ecg_peaks,            *)
(* rsp_peaks).                                                             *)
(*                                                                         *)
(* Arrays are sequences; index i of the Python code is index i+1 here.     *)
(* A float is an exact rational <<num, den>> with den > 0 in lowest terms, *)
(* or one of the three IEEE specials: NaN = <<0,0>>, +inf = <<1,0>>,       *)
(* -inf = <<-1,0>>.  Rounding of the binary floating point is not          *)
(* modelled; division by zero, NaN propagation and NaN comparisons are.    *)
(***************************************************************************)
EXTENDS Integers, Sequences, FiniteSets, TLC

(***************************************************************************)
(* Bounds of the model.                                                    *)
(***************************************************************************)
MaxLen == 6

\* The interval values (ms, up to a common factor: the classifier is scale
\* invariant) from which the input series are drawn.
RRValues == {2, 4, 5}

(***************************************************************************)
(* Floats.                                                                 *)
(***************************************************************************)
NaN == <<0, 0>>
PInf == <<1, 0>>
NInf == <<-1, 0>>

IAbs(n) == IF n < 0 THEN -n ELSE n

IMax(a, b) == IF a < b THEN b ELSE a

IMin(a, b) == IF a < b THEN a ELSE b

RECURSIVE Gcd(_, _)
Gcd(a, b) == IF b = 0 THEN a ELSE Gcd(b, a % b)

\* The rational n/d (d # 0) in lowest terms with a positive denominator.
Rat(n, d) ==
    LET s == IF d < 0 THEN -1 ELSE 1
        g == Gcd(IAbs(n), IAbs(d))
    IN  <<(s * n) \div g, (s * d) \div g>>

FromInt(n) == <<n, 1>>

IsNaN(x) == x = NaN

IsFinite(x) == x[2] > 0

\* a < b as IEEE compares: false as soon as one side is NaN.
Lt(a, b) ==
    /\ ~IsNaN(a)
    /\ ~IsNaN(b)
    /\ IF IsFinite(a) /\ IsFinite(b) THEN a[1] * b[2] < b[1] * a[2]
       ELSE IF IsFinite(a) THEN b = PInf
       ELSE IF IsFinite(b) THEN a = NInf
       ELSE a = NInf /\ b = PInf

Gt(a, b) == Lt(b, a)

Le(a, b) == ~IsNaN(a) /\ ~IsNaN(b) /\ ~Lt(b, a)

Ge(a, b) == Le(b, a)

FNeg(a) == <<-a[1], a[2]>>

FAbs(a) == <<IAbs(a[1]), a[2]>>

\* a + b; inf + (-inf) is NaN.
FAdd(a, b) ==
    IF IsNaN(a) \/ IsNaN(b) THEN NaN
    ELSE IF IsFinite(a) /\ IsFinite(b)
    THEN LET g == Gcd(a[2], b[2])
         IN  Rat(a[1] * (b[2] \div g) + b[1] * (a[2] \div g), (a[2] \div g) * b[2])
    ELSE IF IsFinite(a) THEN b
    ELSE IF IsFinite(b) THEN a
    ELSE IF a = b THEN a ELSE NaN

FSub(a, b) == FAdd(a, FNeg(b))

\* a * b; 0 * inf is NaN.
FMul(a, b) ==
    IF IsNaN(a) \/ IsNaN(b) THEN NaN
    ELSE IF IsFinite(a) /\ IsFinite(b)
    THEN LET g == Gcd(IAbs(a[1]), b[2])
             h == Gcd(IAbs(b[1]), a[2])
         IN  Rat((a[1] \div g) * (b[1] \div h), (a[2] \div h) * (b[2] \div g))
    ELSE IF a[1] = 0 \/ b[1] = 0 THEN NaN
    ELSE IF (a[1] > 0) = (b[1] > 0) THEN PInf ELSE NInf

\* a / b for finite or NaN operands, as numpy divides float arrays:
\* x/0 is +-inf, 0/0 is NaN.
FDiv(a, b) ==
    IF IsNaN(a) \/ IsNaN(b) THEN NaN
    ELSE IF b[1] = 0 THEN (IF a[1] = 0 THEN NaN ELSE IF a[1] > 0 THEN PInf ELSE NInf)
    ELSE Rat(a[1] * b[2], a[2] * b[1])

\* np.max / np.min of two values: NaN propagates.
FMax(a, b) == IF IsNaN(a) \/ IsNaN(b) THEN NaN ELSE IF Lt(a, b) THEN b ELSE a

FMin(a, b) == IF IsNaN(a) \/ IsNaN(b) THEN NaN ELSE IF Lt(a, b) THEN a ELSE b

\* Assigning a float into an int64 array truncates toward zero.
Trunc(a) == FromInt((IF a[1] < 0 THEN -1 ELSE 1) * (IAbs(a[1]) \div a[2]))

(***************************************************************************)
(* Sequences.                                                              *)
(***************************************************************************)
\* The sum of the first n elements of s.
RECURSIVE SumTo(_, _)
SumTo(s, n) == IF n = 0 THEN FromInt(0) ELSE FAdd(SumTo(s, n - 1), s[n])

SumSeq(s) == SumTo(s, Len(s))

\* s[lo..hi] with the bounds clipped to the sequence.
Slice(s, lo, hi) == SubSeq(s, IMax(lo, 1), IMin(hi, Len(s)))

\* The same sequence with every element evaluated (once).
Array(s) == SubSeq(s, 1, Len(s))


(***************************************************************************)
(* pandas rolling statistics (DataFrame.rolling(w, center=True,            *)
(* min_periods=m)) and numpy quantiles.                                    *)
(***************************************************************************)
\* The window of a centred rolling computation ends offset = (w-1)//2
\* samples after the current one and holds w samples.
WindowLo(i, w) == i + ((w - 1) \div 2) - w + 1

WindowHi(i, w) == i + ((w - 1) \div 2)

\* The observations of a window: NaN entries are skipped.
Valid(vals) == SelectSeq(vals, LAMBDA x : ~IsNaN(x))

\* Insert v into an ascending sequence of finite values.
RECURSIVE Insert(_, _)
Insert(v, sorted) ==
    IF sorted = <<>> THEN <<v>>
    ELSE IF Le(v, Head(sorted)) THEN <<v>> \o sorted
    ELSE <<Head(sorted)>> \o Insert(v, Tail(sorted))

\* The values in ascending order.
RECURSIVE Sorted(_)
Sorted(vals) == IF vals = <<>> THEN <<>> ELSE Insert(Head(vals), Sorted(Tail(vals)))

\* The qn/qd quantile with linear interpolation between the two nearest
\* order statistics (pandas' and numpy's default); NaN without observations.
Quantile(vals, qn, qd) ==
    LET v == Sorted(Valid(vals))
        m == Len(v)
        lo == (qn * (m - 1)) \div qd
        fr == (qn * (m - 1)) % qd
    IN  IF m = 0 THEN NaN
        ELSE IF fr = 0 THEN v[lo + 1]
        ELSE FAdd(v[lo + 1], FMul(FSub(v[lo + 2], v[lo + 1]), Rat(fr, qd)))

\* rolling(w, center=True, min_periods=minp).quantile(qn/qd)
RollingQuantile(s, w, minp, qn, qd) ==
    [i \in 1..Len(s) |->
        LET win == Valid(Slice(s, WindowLo(i, w), WindowHi(i, w)))
        IN  IF Len(win) < minp THEN NaN ELSE Quantile(win, qn, qd)]

(***************************************************************************)
(* rr_artefacts: parameters (defaults of the signature) and constants.     *)
(***************************************************************************)
c1 == Rat(13, 100)

c2 == Rat(17, 100)

alpha == Rat(26, 5)

\* Window of the rolling quartiles behind th1 and th2.
QuartileWindow == 91

\* Window of the rolling median behind mRR.
MedianWindow == 11

(***************************************************************************)
(* rr_artefacts, detection: the subspaces.                                 *)
(***************************************************************************)
\* np.diff(rr, prepend=0)
Diff(r) == [i \in 1..Len(r) |-> FromInt(IF i = 1 THEN r[1] ELSE r[i] - r[i - 1])]

\* dRR[1:].mean(); the mean of an empty slice is NaN.
MeanOfRest(d) ==
    IF Len(d) < 2 THEN NaN ELSE FDiv(SumSeq(Tail(d)), FromInt(Len(d) - 1))

\* The value stored by dRR[0] = dRR[1:].mean(): an int64 array truncates it.
FirstItem(d, isInt) ==
    IF isInt /\ ~IsNaN(MeanOfRest(d)) THEN Trunc(MeanOfRest(d)) ELSE MeanOfRest(d)

\* Storing NaN into an int64 array raises ValueError.
FirstItemRaises(d, isInt) == isInt /\ IsNaN(MeanOfRest(d))

\* dRR after lines 523-524.
FirstDifference(r, isInt) ==
    [i \in 1..Len(r) |-> IF i = 1 THEN FirstItem(Diff(r), isInt) ELSE Diff(r)[i]]

\* th = alpha * ((q3 - q1) / 2) over the rolling quartiles of |x|.
Threshold(x) ==
    LET a == Array([i \in 1..Len(x) |-> FAbs(x[i])])
        q1 == RollingQuantile(a, QuartileWindow, 1, 1, 4)
        q3 == RollingQuantile(a, QuartileWindow, 1, 3, 4)
    IN  [i \in 1..Len(x) |-> FMul(alpha, FDiv(FSub(q3[i], q1[i]), FromInt(2)))]

Normalise(x, th) == [i \in 1..Len(x) |-> FDiv(x[i], th[i])]

RollingMedian(r) ==
    RollingQuantile([i \in 1..Len(r) |-> FromInt(r[i])], MedianWindow, 1, 1, 2)

\* mRR = rr - medRR; mRR[mRR < 0] = 2 * mRR[mRR < 0]
MedianDeviation(r, med) ==
    [i \in 1..Len(r) |->
        LET d == FSub(FromInt(r[i]), med[i])
        IN  IF Lt(d, FromInt(0)) THEN FMul(FromInt(2), d) ELSE d]

\* np.max([a, b]) or np.min([a, b])
Extreme(useMax, a, b) == IF useMax THEN FMax(a, b) ELSE FMin(a, b)

\* np.hstack([0, [f([dRR[i-1], dRR[i+1]]) for i in range(1, len(dRR) - 1)], 0]):
\* the list comprehension is empty below three samples, the two zeros are
\* always there.
HStackInner(d, useMax) ==
    <<FromInt(0)>>
        \o [k \in 1..IMax(Len(d) - 2, 0) |-> Extreme(useMax, d[k], d[k + 2])]
        \o <<FromInt(0)>>

\* np.hstack([[f([dRR[i+1], dRR[i+2]]) for i in range(0, len(dRR) - 2)], 0, 0])
HStackAhead(d, useMax) ==
    [k \in 1..IMax(Len(d) - 2, 0) |-> Extreme(useMax, d[k + 1], d[k + 2])]
        \o <<FromInt(0), FromInt(0)>>

\* s12 = ma; s12[dRR < 0] = mi[dRR < 0]
Subspace2(d) ==
    LET ma == HStackInner(d, TRUE)
        mi == HStackInner(d, FALSE)
    IN  [i \in 1..Len(ma) |->
            IF i <= Len(d) /\ Lt(d[i], FromInt(0)) THEN mi[i] ELSE ma[i]]

\* s22 = ma; s22[dRR >= 0] = mi[dRR >= 0]
Subspace3(d) ==
    LET ma == HStackAhead(d, TRUE)
        mi == HStackAhead(d, FALSE)
    IN  [i \in 1..Len(ma) |->
            IF i <= Len(d) /\ Ge(d[i], FromInt(0)) THEN mi[i] ELSE ma[i]]

\* A boolean mask indexes an array of another length: numpy raises IndexError.
MaskMismatch(arr, mask) == Len(arr) # Len(mask)

(***************************************************************************)
(* rr_artefacts, decision.                                                 *)
(***************************************************************************)
\* cond1 = (s11 > 1) & (s12 < (-c1 * s11 - c2))
Cond1(a, b) == Gt(a, FromInt(1)) /\ Lt(b, FSub(FMul(FNeg(c1), a), c2))

\* cond2 = (s11 < -1) & (s12 > (-c1 * s11 + c2))
Cond2(a, b) == Lt(a, FromInt(-1)) /\ Gt(b, FAdd(FMul(FNeg(c1), a), c2))

\* ectopic[-2:] = False; ectopic[:2] = False
ClearTwoAtEachEnd(mask) ==
    [i \in 1..Len(mask) |-> IF i <= 2 \/ i > Len(mask) - 2 THEN FALSE ELSE mask[i]]

\* ectopic = cond1 | cond2, then cleared at the edges
Ectopic(x11, x12) ==
    ClearTwoAtEachEnd([i \in 1..Len(x11) |-> Cond1(x11[i], x12[i]) \/ Cond2(x11[i], x12[i])])

\* np.median(rr)
Median(r) == Quantile([i \in 1..Len(r) |-> FromInt(r[i])], 1, 2)

\* ((s11 > 1) & (s22 < -1)) | ((np.abs(mRR) > 3) & (rr > np.median(rr)))
LongCondition(r, x11, x22, m) ==
    LET median == Median(r)
    IN  [i \in 1..Len(r) |->
            \/ Gt(x11[i], FromInt(1)) /\ Lt(x22[i], FromInt(-1))
            \/ Gt(FAbs(m[i]), FromInt(3)) /\ Gt(FromInt(r[i]), median)]

\* ((s11 < -1) & (s22 > 1)) | ((np.abs(mRR) > 3) & (rr <= np.median(rr)))
ShortCondition(r, x11, x22, m) ==
    LET median == Median(r)
    IN  [i \in 1..Len(r) |->
            \/ Lt(x11[i], FromInt(-1)) /\ Gt(x22[i], FromInt(1))
            \/ Gt(FAbs(m[i]), FromInt(3)) /\ Le(FromInt(r[i]), median)]

\* `cond[i] is True`: cond[i] is a numpy.bool_ taken out of a boolean array,
\* never the Python singleton True, so the identity test is false for both
\* values of the element.
IsPyTrue(b) == FALSE

\* for i in range(len(cond) - 2):
\*     if cond[i] is True:
\*         if np.abs(s11[i + 1]) < np.abs(s11[i + 2]): cond[i + 1] = True
\* The loop writes into the array it reads; i is the model's index of cond[i].
RECURSIVE PropagateFrom(_, _, _)
PropagateFrom(cond, x11, i) ==
    IF i > Len(cond) - 2 THEN cond
    ELSE PropagateFrom(
            IF IsPyTrue(cond[i]) /\ Lt(FAbs(x11[i + 1]), FAbs(x11[i + 2]))
            THEN [cond EXCEPT ![i + 1] = TRUE] ELSE cond,
            x11, i + 1)

Propagated(cond, x11) == PropagateFrom(cond, x11, 1)

\* beats[mask] = False
ClearWhere(beats, mask) == [i \in 1..Len(beats) |-> beats[i] /\ ~mask[i]]

\* Mutant of MissedCandidate: the comparison with th2 is not strict.
MissedCandidate_NonStrict(r, med, th) ==
    [i \in 1..Len(r) |-> Le(FAbs(FSub(Rat(r[i], 2), med[i])), th[i])]

\* np.abs((rr / 2) - medRR) < th2
MissedCandidate(r, med, th) ==
    [i \in 1..Len(r) |-> Lt(FAbs(FSub(Rat(r[i], 2), med[i])), th[i])]

\* np.abs(rr + np.append(rr[1:], 0) - medRR) < th2
ExtraCandidate(r, med, th) ==
    [i \in 1..Len(r) |->
        Lt(FAbs(FSub(FromInt(r[i] + (IF i < Len(r) THEN r[i + 1] ELSE 0)), med[i])),
           th[i])]

MaskAnd(a, b) == [i \in 1..Len(a) |-> a[i] /\ b[i]]

\* Mutant of ClearEnds: only the first sample is cleared.
ClearEnds_FirstOnly(beats) == [i \in 1..Len(beats) |-> IF i = 1 THEN FALSE ELSE beats[i]]

\* beats[0], beats[-1] = False, False
ClearEnds(beats) ==
    [i \in 1..Len(beats) |-> IF i = 1 \/ i = Len(beats) THEN FALSE ELSE beats[i]]

(***************************************************************************)
(* The peak detectors: resampling, rolling mean and deviation, find_peaks. *)
(***************************************************************************)
\* int(rate * seconds) for a duration given as the rational seconds.
IntOf(rate, seconds) == (rate * seconds[1]) \div seconds[2]

\* 2^k modulo m
RECURSIVE PowerMod(_, _)
PowerMod(k, m) == IF k = 0 THEN 1 % m ELSE (2 * PowerMod(k - 1, m)) % m

\* The j with s <= u * 2^j < 2 * s: the binary64 number nearest to u / s has
\* the 53-bit significand round(u * 2^(52 + j) / s).
Exponent(u, s) ==
    CHOOSE j \in -12..12 :
        IF j >= 0 THEN s <= u * 2^j /\ u * 2^j < 2 * s
        ELSE s * 2^(-j) <= u /\ u < 2 * s * 2^(-j)

\* s * (the binary64 number nearest to u / s) - u, in units of
\* 2^-(52 + Exponent(u, s)); no tie arises for these u and s.
Remainder(u, s) ==
    LET rho == ((u % s) * PowerMod(52 + Exponent(u, s), s)) % s
    IN  IF 2 * rho < s THEN -rho ELSE s - rho

\* The number of bits of N.
Bits(N) == CHOOSE L \in 1..12 : 2^(L - 1) <= N /\ N < 2^L

\* np.arange(0, n / sf, 1 / nsf) has ceil((n / sf) / (1 / nsf)) items, the
\* two quotients and their quotient being binary64 numbers rounded to
\* nearest.  Where n * nsf / sf is an integer N, the computed quotient is
\* N or the next number above N, and then the array has one item more:
\* (n + ra * 2^-p) / (1 + rb * 2^-q) * nsf / sf exceeds N by more than half
\* a unit in the last place of N.
Excess(n, sf, nsf) ==
    LET jn == Exponent(n, sf)
        jd == Exponent(1, nsf)
        ra == Remainder(n, sf)
        rb == Remainder(1, nsf)
        L == Bits((n * nsf) \div sf)
        lhs == 2 * nsf * (ra * 2^(jd - jn) - n * rb)
        rhs == sf * 2^(L + jd - 1)
    IN  IF lhs > rhs \/ (lhs = rhs /\ rb < 0) THEN 1 ELSE 0

\* len(np.arange(0, n / sfreq, 1 / new_sfreq)): the ceiling of the computed
\* n * new / sfreq.
ResampledLen(n, sf, nsf) ==
    IF (n * nsf) % sf # 0 THEN (n * nsf + sf - 1) \div sf
    ELSE (n * nsf) \div sf + Excess(n, sf, nsf)

\* np.interp(new_time, time, x) at new_time[j-1] = (j-1) / new_sfreq: linear
\* between the two neighbouring samples, the last sample held beyond it.
InterpAt(xs, j, sf, nsf) ==
    LET pos == (j - 1) * sf
        lo == pos \div nsf
        fr == pos % nsf
    IN  IF lo + 1 >= Len(xs) THEN xs[Len(xs)]
        ELSE IF fr = 0 THEN xs[lo + 1]
        ELSE FAdd(xs[lo + 1], FMul(FSub(xs[lo + 2], xs[lo + 1]), Rat(fr, nsf)))

\* Lines 130-133: the signal resampled to new_sfreq.
Resample(xs, sf, nsf) ==
    [j \in 1..ResampledLen(Len(xs), sf, nsf) |-> InterpAt(xs, j, sf, nsf)]

HasNaN(win) == \E k \in 1..Len(win) : IsNaN(win[k])

\* The full window of sample i under rolling(w, center=True) with the default
\* min_periods = w, or <<>> when it is cut by an edge of the series or holds
\* a NaN (fewer than w observations).
FullWindow(xs, i, w) ==
    LET lo == WindowLo(i, w)
        hi == WindowHi(i, w)
    IN  IF w < 1 \/ lo < 1 \/ hi > Len(xs) THEN <<>>
        ELSE IF \E k \in lo..hi : IsNaN(xs[k]) THEN <<>>
        ELSE SubSeq(xs, lo, hi)

Mean(win) == FDiv(SumSeq(win), FromInt(Len(win)))

\* rolling(w, center=True).mean()
RollingMean(xs, w) ==
    [i \in 1..Len(xs) |->
        LET win == FullWindow(xs, i, w)
        IN  IF win = <<>> THEN NaN ELSE Mean(win)]

\* The sum of squared deviations from m.
SumSq(win, m) ==
    SumSeq([k \in 1..Len(win) |-> LET d == FSub(win[k], m) IN FMul(d, d)])

\* The square of rolling(w, center=True).std(): the sample variance (ddof=1),
\* NaN for a window of one.
RollingVar(xs, w) ==
    [i \in 1..Len(xs) |->
        LET win == FullWindow(xs, i, w)
        IN  IF win = <<>> \/ Len(win) < 2 THEN NaN
            ELSE FDiv(SumSq(win, Mean(win)), FromInt(Len(win) - 1))]

(***************************************************************************)
(* A sample handed to find_peaks is a pair <<a, v>> standing for the float *)
(* a - sqrt(v), with a a float and v a finite rational >= 0 (or NaN): the  *)
(* standard deviation is the square root of a rational, and the            *)
(* comparisons below decide the order of such numbers exactly.             *)
(***************************************************************************)
Sample(a, v) == <<a, v>>

Plain(a) == <<a, FromInt(0)>>

SIsNaN(t) == IsNaN(t[1]) \/ IsNaN(t[2])

ISign(n) == IF n > 0 THEN 1 ELSE IF n < 0 THEN -1 ELSE 0

\* The sign of a/b - c/d for positive integers, by their continued fractions
\* (no product is formed).
RECURSIVE CompareFractions(_, _, _, _)
CompareFractions(a, b, c, d) ==
    IF a \div b # c \div d THEN ISign((a \div b) - (c \div d))
    ELSE IF a % b = 0 \/ c % d = 0 THEN ISign((a % b) - (c % d))
    ELSE CompareFractions(d, c % d, b, a % b)

\* The sign of d + sqrt(q) - sqrt(p) for finite rationals d, p >= 0, q >= 0.
\* With d > 0 and p > q it is the sign of e + 2 * sqrt(p * q) for
\* e = d * d - p - q, and with e < 0 that of 4 * p / -e against -e / q.
RECURSIVE SurdSign(_, _, _)
SurdSign(d, p, q) ==
    IF d[1] = 0 THEN ISign(FSub(q, p)[1])
    ELSE IF d[1] < 0 THEN -SurdSign(FNeg(d), q, p)
    ELSE IF Le(p, q) THEN 1
    ELSE LET e == FSub(FMul(d, d), FAdd(p, q))
         IN  IF e[1] >= 0
             THEN (IF e[1] = 0 /\ (p[1] = 0 \/ q[1] = 0) THEN 0 ELSE 1)
             ELSE IF q[1] = 0 THEN -1
             ELSE LET lhs == FDiv(FMul(FromInt(4), p), FNeg(e))
                      rhs == FDiv(FNeg(e), q)
                  IN  CompareFractions(lhs[1], lhs[2], rhs[1], rhs[2])

\* The sign of a - b for finite rationals.
RCompare(a, b) ==
    IF a[1] <= 0 \/ b[1] <= 0
    THEN (IF a[1] > 0 \/ (a[1] = 0 /\ b[1] < 0) THEN 1
          ELSE IF b[1] > 0 \/ (b[1] = 0 /\ a[1] < 0) THEN -1
          ELSE IF a[1] = 0 THEN 0
          ELSE CompareFractions(-b[1], b[2], -a[1], a[2]))
    ELSE CompareFractions(a[1], a[2], b[1], b[2])

\* The sign of s - t for two samples without NaN; infinite parts do not occur
\* (the signals are finite).
SCompare(s, t) ==
    IF s[2] = t[2] THEN RCompare(s[1], t[1])
    ELSE SurdSign(FSub(s[1], t[1]), s[2], t[2])

SLt(s, t) == ~SIsNaN(s) /\ ~SIsNaN(t) /\ SCompare(s, t) < 0

SEq(s, t) == ~SIsNaN(s) /\ ~SIsNaN(t) /\ SCompare(s, t) = 0

\* s >= 0
SNonNegative(s) == ~SIsNaN(s) /\ SCompare(s, Plain(FromInt(0))) >= 0

\* s > 0
SPositive(s) == ~SIsNaN(s) /\ SCompare(s, Plain(FromInt(0))) > 0

\* scipy.signal._peak_finding_utils._local_maxima_1d: the midpoints of the
\* plateaus (of one sample or more) that a strictly lower sample precedes and
\* a strictly lower sample follows; the first and last sample are never peaks.
LocalMaxima(t) ==
    {((l + r - 2) \div 2) + 1 :
        <<l, r>> \in {lr \in (2..(Len(t) - 1)) \X (2..(Len(t) - 1)) :
            /\ lr[1] <= lr[2]
            /\ SLt(t[lr[1] - 1], t[lr[1]])
            /\ \A j \in lr[1]..lr[2] : SEq(t[j], t[lr[1]])
            /\ SLt(t[lr[2] + 1], t[lr[1]])}}

\* The members of a set of indices in ascending order.
RECURSIVE Ascending(_)
Ascending(S) ==
    IF S = {} THEN <<>>
    ELSE LET m == CHOOSE a \in S : \A b \in S : a <= b
         IN  <<m>> \o Ascending(S \ {m})

\* find_peaks(height=0): the maxima whose height is at least 0.
HighEnough(t, maxima) == {m \in maxima : SNonNegative(t[m])}

\* np.argsort(priority) as the insertion sort numpy uses on short arrays: the
\* positions 1..Len(pk) by ascending height, equal heights in position order.
RECURSIVE InsertByHeight(_, _, _, _)
InsertByHeight(j, order, pk, t) ==
    IF order = <<>> THEN <<j>>
    ELSE IF SLt(t[pk[j]], t[pk[Head(order)]]) THEN <<j>> \o order
    ELSE <<Head(order)>> \o InsertByHeight(j, Tail(order), pk, t)

RECURSIVE ArgSortFrom(_, _, _)
ArgSortFrom(j, pk, t) ==
    IF j < 1 THEN <<>> ELSE InsertByHeight(j, ArgSortFrom(j - 1, pk, t), pk, t)

ArgSort(pk, t) == ArgSortFrom(Len(pk), pk, t)

\* scipy's _select_by_peak_distance: from the highest peak down, a peak that
\* is still kept removes every peak closer than d samples to it.
RECURSIVE SelectByDistance(_, _, _, _, _)
SelectByDistance(pk, order, i, keep, d) ==
    IF i < 1 THEN keep
    ELSE LET j == order[i]
         IN  SelectByDistance(pk, order, i - 1,
                IF keep[j]
                THEN [k \in 1..Len(pk) |->
                        keep[k] /\ (k = j \/ IAbs(pk[k] - pk[j]) >= d)]
                ELSE keep,
                d)

\* find_peaks(t, height=0, distance=d)[0] for d >= 1, as a set of indices.
FindPeaks(t, d) ==
    LET pk == Ascending(HighEnough(t, LocalMaxima(t)))
        keep == SelectByDistance(pk, ArgSort(pk, t), Len(pk),
                                 [k \in 1..Len(pk) |-> TRUE], d)
    IN  {pk[k] : k \in {k \in 1..Len(pk) : keep[k]}}

\* peaks = np.zeros(n, dtype=bool); peaks[idx] = True
PeakVector(n, idx) == [i \in 1..n |-> i \in idx]

(***************************************************************************)
(* State.                                                                  *)
(***************************************************************************)
VARIABLES
    fn,          \* the function the caller invoked
    pc,          \* the statement about to run
    outcome,     \* "running", "returned" or the exception raised
    rr,          \* rr_artefacts: the interval series (ms)
    rrIsInt,     \* rr_artefacts: rr is an int64 array (else float64)
    dRR,         \* np.diff(rr, prepend=0) with its first item replaced
    th1,
    s11,         \* dRR / th1 (the code rebinds dRR to it)
    medRR,
    mRR,
    th2,
    s12,
    s22,
    ectopic,
    longBeats,
    shortBeats,
    missed,
    extra,
    artefacts,   \* the dictionary rr_artefacts returns
    signal,      \* the peak detectors: the caller's array
    sigIsInt,    \* the caller's array is an int64 array (else float64)
    sfreq,
    new_sfreq,
    opt,         \* the keyword arguments the call has read so far
    x,           \* the working array
    xIsInt,      \* x is an int64 array
    xAlias,      \* x is the caller's array itself, not a copy
    resampled_signal,
    min_threshold,
    max_threshold,
    peaks_idx,
    peaks,
    troughs,
    bound,       \* the local names already bound among peaks and troughs
    result       \* the tuple the detector returns

rrInputs == <<rr, rrIsInt>>

subspaceVars == <<dRR, th1, s11, medRR, mRR, th2, s12, s22>>

maskVars == <<ectopic, longBeats, shortBeats, missed, extra>>

rrVars == <<rrInputs, subspaceVars, maskVars, artefacts>>

callVars == <<sfreq, new_sfreq, sigIsInt>>

arrayVars == <<x, xIsInt, xAlias>>

thresholdVars == <<min_threshold, max_threshold>>

peakVars == <<peaks_idx, peaks, troughs, bound>>

detectorVars == <<signal, callVars, opt, arrayVars, resampled_signal, thresholdVars,
                  peakVars, result>>

vars == <<fn, pc, outcome, rrVars, detectorVars>>

\* Python's None.
None == <<>>

\* No detector is running: its variables hold nothing.
NoDetector ==
    /\ signal = <<>> /\ sigIsInt = FALSE /\ sfreq = 1 /\ new_sfreq = 1
    /\ opt = <<>>
    /\ x = <<>> /\ xIsInt = FALSE /\ xAlias = FALSE
    /\ resampled_signal = <<>>
    /\ min_threshold = None /\ max_threshold = None
    /\ peaks_idx = <<>> /\ peaks = <<>> /\ troughs = <<>> /\ bound = {}
    /\ result = <<>>

\* Series with intervals that fall steeply from above the median to below it.
FallingSeries == {<<5, 4, 1, 2, 1>>, <<5, 4, 5, 2, 2, 1>>}

\* The interval series a caller may pass: 1 to MaxLen positive intervals.
RRSeries == UNION {[1..n -> RRValues] : n \in 1..MaxLen} \cup FallingSeries

NoReport == [k \in {} |-> <<>>]

InitRR ==
    /\ fn = "rr_artefacts"
    /\ pc = "subspace1"
    /\ outcome = "running"
    /\ rr \in RRSeries
    /\ rrIsInt \in BOOLEAN
    /\ dRR = <<>> /\ th1 = <<>> /\ s11 = <<>>
    /\ medRR = <<>> /\ mRR = <<>> /\ th2 = <<>>
    /\ s12 = <<>> /\ s22 = <<>>
    /\ ectopic = <<>> /\ longBeats = <<>> /\ shortBeats = <<>>
    /\ missed = <<>> /\ extra = <<>>
    /\ artefacts = NoReport
    /\ NoDetector

\* An exception leaves the function: nothing is returned.
Raise(exc) ==
    /\ pc' = "done"
    /\ outcome' = exc

(***************************************************************************)
(* rr_artefacts, statement by statement.                                   *)
(***************************************************************************)
\* Lines 522-532: subspace 1.
Subspace1Step ==
    /\ pc = "subspace1"
    /\ IF FirstItemRaises(Diff(rr), rrIsInt)
       THEN /\ Raise("ValueError")
            /\ UNCHANGED <<dRR, th1, s11>>
       ELSE LET d == Array(FirstDifference(rr, rrIsInt))
                th == Array(Threshold(d))
            IN  /\ dRR' = d
                /\ th1' = th
                /\ s11' = Normalise(d, th)
                /\ pc' = "mRR"
                /\ UNCHANGED outcome
    /\ UNCHANGED <<fn, detectorVars, rrInputs, medRR, mRR, th2, s12, s22, maskVars, artefacts>>

\* Lines 534-549: the mRR time series.
MedianDeviationStep ==
    /\ pc = "mRR"
    /\ LET med == Array(RollingMedian(rr))
           m == Array(MedianDeviation(rr, med))
           th == Array(Threshold(m))
       IN  /\ medRR' = med
           /\ th2' = th
           /\ mRR' = Normalise(m, th)
    /\ pc' = "subspace2"
    /\ UNCHANGED <<fn, detectorVars, outcome, rrInputs, dRR, th1, s11, s12, s22, maskVars, artefacts>>

\* Lines 551-559: subspace 2.
Subspace2Step ==
    /\ pc = "subspace2"
    /\ IF MaskMismatch(HStackInner(s11, TRUE), s11)
       THEN /\ Raise("IndexError")
            /\ UNCHANGED s12
       ELSE /\ s12' = Subspace2(s11)
            /\ pc' = "subspace3"
            /\ UNCHANGED outcome
    /\ UNCHANGED <<fn, detectorVars, rrInputs, dRR, th1, s11, medRR, mRR, th2, s22, maskVars, artefacts>>

\* Lines 561-569: subspace 3.
Subspace3Step ==
    /\ pc = "subspace3"
    /\ IF MaskMismatch(HStackAhead(s11, TRUE), s11)
       THEN /\ Raise("IndexError")
            /\ UNCHANGED s22
       ELSE /\ s22' = Subspace3(s11)
            /\ pc' = "ectopic"
            /\ UNCHANGED outcome
    /\ UNCHANGED <<fn, detectorVars, rrInputs, dRR, th1, s11, medRR, mRR, th2, s12, maskVars, artefacts>>

\* Lines 575-581: ectopic beats, none at the edges.
FindEctopicStep ==
    /\ pc = "ectopic"
    /\ ectopic' = Ectopic(s11, s12)
    /\ pc' = "longshort"
    /\ UNCHANGED <<fn, detectorVars, outcome, rrInputs, subspaceVars, longBeats, shortBeats,
                   missed, extra, artefacts>>

\* Lines 583-585: long and short beats.
FindLongShortStep ==
    /\ pc = "longshort"
    /\ longBeats' = LongCondition(rr, s11, s22, mRR)
    /\ shortBeats' = ShortCondition(rr, s11, s22, mRR)
    /\ pc' = "propagate"
    /\ UNCHANGED <<fn, detectorVars, outcome, rrInputs, subspaceVars, ectopic, missed, extra, artefacts>>

\* Lines 587-592: is the next interval an outlier too?
PropagateStep ==
    /\ pc = "propagate"
    /\ longBeats' = Propagated(longBeats, s11)
    /\ shortBeats' = Propagated(shortBeats, s11)
    /\ pc' = "exclude"
    /\ UNCHANGED <<fn, detectorVars, outcome, rrInputs, subspaceVars, ectopic, missed, extra, artefacts>>

\* Mutant of ExcludeEctopicStep: longBeats[ectopic] = False is left out.
ExcludeEctopicStep_ShortOnly ==
    /\ pc = "exclude"
    /\ shortBeats' = ClearWhere(shortBeats, ectopic)
    /\ pc' = "missed"
    /\ UNCHANGED <<fn, detectorVars, outcome, rrInputs, subspaceVars, ectopic, longBeats, missed,
                   extra, artefacts>>

\* Mutant of ExcludeEctopicStep: neither mask is cleared.
ExcludeEctopicStep_Skipped ==
    /\ pc = "exclude"
    /\ pc' = "missed"
    /\ UNCHANGED <<fn, detectorVars, outcome, rrInputs, subspaceVars, maskVars, artefacts>>

\* Lines 594-596: ectopic beats are not considered short or long.
ExcludeEctopicStep ==
    /\ pc = "exclude"
    /\ shortBeats' = ClearWhere(shortBeats, ectopic)
    /\ longBeats' = ClearWhere(longBeats, ectopic)
    /\ pc' = "missed"
    /\ UNCHANGED <<fn, detectorVars, outcome, rrInputs, subspaceVars, ectopic, missed, extra, artefacts>>

\* Mutant of MissedStep: longBeats[missed] = False is left out.
MissedStep_LongKept ==
    /\ pc = "missed"
    /\ missed' = MaskAnd(MissedCandidate(rr, medRR, th2), longBeats)
    /\ pc' = "extra"
    /\ UNCHANGED <<fn, detectorVars, outcome, rrInputs, subspaceVars, ectopic, longBeats, shortBeats,
                   extra, artefacts>>

\* Lines 598-601: the missed vector.
MissedStep ==
    /\ pc = "missed"
    /\ LET m == MaskAnd(MissedCandidate(rr, medRR, th2), longBeats)
       IN  /\ missed' = m
           /\ longBeats' = ClearWhere(longBeats, m)
    /\ pc' = "extra"
    /\ UNCHANGED <<fn, detectorVars, outcome, rrInputs, subspaceVars, ectopic, shortBeats, extra, artefacts>>

\* Lines 603-606: the extra vector.
ExtraStep ==
    /\ pc = "extra"
    /\ LET e == MaskAnd(ExtraCandidate(rr, medRR, th2), shortBeats)
       IN  /\ extra' = e
           /\ shortBeats' = ClearWhere(shortBeats, e)
    /\ pc' = "edges"
    /\ UNCHANGED <<fn, detectorVars, outcome, rrInputs, subspaceVars, ectopic, longBeats, missed, artefacts>>

\* Lines 608-610: no short or long intervals at the edges.
ClearEdgesStep ==
    /\ pc = "edges"
    /\ shortBeats' = ClearEnds(shortBeats)
    /\ longBeats' = ClearEnds(longBeats)
    /\ pc' = "report"
    /\ UNCHANGED <<fn, detectorVars, outcome, rrInputs, subspaceVars, ectopic, missed, extra, artefacts>>

\* Lines 612-624: the dictionary.
Report ==
    [subspace1 |-> s11, subspace2 |-> s12, subspace3 |-> s22, mRR |-> mRR,
     ectopic |-> ectopic, long |-> longBeats, short |-> shortBeats,
     missed |-> missed, extra |-> extra, threshold1 |-> th1, threshold2 |-> th2]

\* Lines 612-626: build and return the dictionary.
ReturnArtefactsStep ==
    /\ pc = "report"
    /\ artefacts' = Report
    /\ pc' = "done"
    /\ outcome' = "returned"
    /\ UNCHANGED <<fn, detectorVars, rrInputs, subspaceVars, maskVars>>

NextRR ==
    \/ Subspace1Step
    \/ MedianDeviationStep
    \/ Subspace2Step
    \/ Subspace3Step
    \/ FindEctopicStep
    \/ FindLongShortStep
    \/ PropagateStep
    \/ ExcludeEctopicStep
    \/ MissedStep
    \/ ExtraStep
    \/ ClearEdgesStep
    \/ ReturnArtefactsStep

SpecRR == InitRR /\ [][NextRR]_vars

(***************************************************************************)
(* Properties of rr_artefacts.                                             *)
(***************************************************************************)
\* rr_artefacts has returned its dictionary.
Reported == DOMAIN artefacts # {}

\* The first two and the last two samples of a series of n.
NearEdge(i, n) == i <= 2 \/ i > n - 2

Interior(n) == 2..(n - 1)

RawEctopic(i) == Cond1(s11[i], s12[i]) \/ Cond2(s11[i], s12[i])

\* C1: in the report returned by rr_artefacts the ectopic mask is false at
\* the first two and the last two samples, and the long and short masks are
\* false at the first and at the last sample.
C1_MasksClearAtEdges ==
    Reported =>
        LET n == Len(rr)
        IN  /\ \A i \in 1..n : NearEdge(i, n) => ~artefacts.ectopic[i]
            /\ ~artefacts.long[1] /\ ~artefacts.long[n]
            /\ ~artefacts.short[1] /\ ~artefacts.short[n]

\* A report, with interior samples, for which both clearings acted: an edge sample met the ectopic
\* condition, and the first or last sample met the long or short condition
\* without being reclassified as missed or extra.
C1_Witness ==
    /\ Reported
    /\ Len(rr) >= 5
    /\ \E i \in 1..Len(rr) : NearEdge(i, Len(rr)) /\ RawEctopic(i)
    /\ \E i \in {1, Len(rr)} :
          \/ LongCondition(rr, s11, s22, mRR)[i] /\ ~artefacts.missed[i]
          \/ ShortCondition(rr, s11, s22, mRR)[i] /\ ~artefacts.extra[i]

\* C2: in the report returned by rr_artefacts missed and long are never both
\* true at a sample, and extra and short are never both true at a sample.
C2_MissedLongExtraShortExclusive ==
    Reported =>
        \A i \in 1..Len(rr) :
            /\ ~(artefacts.missed[i] /\ artefacts.long[i])
            /\ ~(artefacts.extra[i] /\ artefacts.short[i])

\* A report with a missed sample and an extra sample.
C2_Witness ==
    /\ Reported
    /\ \E i \in 1..Len(rr) : artefacts.missed[i]
    /\ \E i \in 1..Len(rr) : artefacts.extra[i]

\* C3: in the report returned by rr_artefacts no sample flagged ectopic is
\* flagged long or short.
C3_EctopicNotLongShort ==
    Reported =>
        \A i \in 1..Len(rr) :
            artefacts.ectopic[i] => ~artefacts.long[i] /\ ~artefacts.short[i]

\* A report with an ectopic sample that also met the long or the short
\* condition: the exclusion acted on it.
C3_Witness ==
    /\ Reported
    /\ \E i \in 1..Len(rr) :
          /\ artefacts.ectopic[i]
          /\ \/ LongCondition(rr, s11, s22, mRR)[i]
             \/ ShortCondition(rr, s11, s22, mRR)[i]

\* C4: the propagation rule.  Once the propagation pass has run (and before
\* the ectopic exclusion), whenever sample i satisfies the long (short)
\* condition and |s11[i+2]| > |s11[i+1]|, sample i+1 is marked long (short).
C4_PropagationApplied ==
    (fn = "rr_artefacts" /\ pc = "exclude") =>
        \A i \in 1..(Len(rr) - 2) :
            Lt(FAbs(s11[i + 1]), FAbs(s11[i + 2])) =>
                /\ LongCondition(rr, s11, s22, mRR)[i] => longBeats[i + 1]
                /\ ShortCondition(rr, s11, s22, mRR)[i] => shortBeats[i + 1]

\* Sample k holds twice an interval value: a simulated missed beat.
Doubled(k) == \E v \in RRValues : rr[k] = 2 * v

\* Sample k is doubled and every other interval has the undoubled value.
DoubledInRegular(k) == \A j \in 1..Len(rr) : j # k => 2 * rr[j] = rr[k]

\* |rr[k]/2 - medRR[k]| < th2[k]
HalfNearMedian(k) == Lt(FAbs(FSub(Rat(rr[k], 2), medRR[k])), th2[k])

\* C5 as claimed: every doubled interior interval is reported missed and not
\* long.
C5_DoubledIsMissed ==
    Reported =>
        \A k \in Interior(Len(rr)) :
            Doubled(k) => artefacts.missed[k] /\ ~artefacts.long[k]

\* C5 as amended: a doubled interior interval is reported missed only when
\* |interval/2 - rolling median| < th2 there, and then it is not reported
\* long; it is reported long only when that inequality fails; in an otherwise
\* perfectly regular series it is not reported missed, and from five samples
\* on it is reported long.
C5_DoubledMissedOnlyBelowTh2 ==
    Reported =>
        \A k \in Interior(Len(rr)) :
            Doubled(k) =>
                /\ artefacts.missed[k] => HalfNearMedian(k) /\ ~artefacts.long[k]
                /\ artefacts.long[k] => ~HalfNearMedian(k)
                /\ DoubledInRegular(k) => ~artefacts.missed[k]
                /\ DoubledInRegular(k) /\ Len(rr) >= 5 => artefacts.long[k]

\* A report in which a doubled interior interval is marked missed, not long.
C5_Witness ==
    /\ Reported
    /\ \E k \in Interior(Len(rr)) :
          Doubled(k) /\ artefacts.missed[k] /\ ~artefacts.long[k]

\* C6: for every series of n >= 1 intervals rr_artefacts returns a report
\* whose eleven sequences all have length n.
C6_ReportAlignedForEveryLength ==
    (fn = "rr_artefacts" /\ pc = "done") =>
        /\ outcome = "returned"
        /\ \A k \in DOMAIN artefacts : Len(artefacts[k]) = Len(rr)


(***************************************************************************)
(* The peak detectors: inputs.                                             *)
(***************************************************************************)
MaxSig == 3

SigValues == {0, 1, 2}

Rates == {1, 2}

\* The arrays a caller may pass: 1 to MaxSig samples.
Signals == UNION {[1..n -> {FromInt(v) : v \in SigValues}] : n \in 1..MaxSig}

\* win of ppg_peaks (seconds): 1.5 and 2.5, windows of 0 to 5 samples at the
\* rates tried.
PpgWins == {<<3, 2>>, <<5, 2>>}

\* distance of ppg_peaks (seconds): the default 0.3, and 1.
Distances == {<<3, 10>>, <<1, 1>>}

\* moving_average_length of ppg_peaks (seconds): the default 0.05, and 1.
MovingAverageLengths == {<<1, 20>>, <<1, 1>>}

\* clipping_thresholds of ppg_peaks: "auto", a scalar, or a list of two.
ClippingThresholds ==
    {<<"auto">>, <<"scalar">>, <<"list", None, None>>,
     <<"list", FromInt(0), FromInt(2)>>}

\* The levels a cubic spline may take at the samples it reconstructs.
ReconValues == {FromInt(1), FromInt(3)}

\* Longer signals for the pruning of extra peaks: a flat line with a spike
\* after each of the intervals, sampled at a rate of TrainRates.
TrainRates == {2}

TrainIntervals == {<<2, 3>>, <<3, 3, 3, 3>>, <<3, 2, 3, 2, 3>>}

\* The place of spike k (from 0) of a train: two samples of margin, then the
\* intervals.
RECURSIVE SpikeAt(_, _)
SpikeAt(intervals, k) ==
    IF k = 0 THEN 3 ELSE SpikeAt(intervals, k - 1) + intervals[k]

SpikeTrain(intervals) ==
    LET spikes == {SpikeAt(intervals, k) : k \in 0..Len(intervals)}
    IN  Array([i \in 1..(SpikeAt(intervals, Len(intervals)) + 2) |->
                  IF i \in spikes THEN FromInt(2) ELSE FromInt(0)])

SpikeTrains == {SpikeTrain(intervals) : intervals \in TrainIntervals}

\* Five samples at rates that are not powers of two.
OddRateSignals ==
    {<<FromInt(0), FromInt(2), FromInt(0), FromInt(2), FromInt(0)>>,
     <<FromInt(1), FromInt(1), FromInt(2), FromInt(1), FromInt(1)>>}

OddRates == {3, 6}

\* Calls at the edge of the domain: an empty signal, a sampling rate of 0.
EdgeSignals == {<<>>, <<FromInt(0), FromInt(2), FromInt(0)>>}

EdgeRates == {0, 1}

InitDetector(f, first, signals, rates) ==
    /\ fn = f
    /\ pc = first
    /\ outcome = "running"
    /\ rr = <<>> /\ rrIsInt = FALSE
    /\ dRR = <<>> /\ th1 = <<>> /\ s11 = <<>>
    /\ medRR = <<>> /\ mRR = <<>> /\ th2 = <<>>
    /\ s12 = <<>> /\ s22 = <<>>
    /\ ectopic = <<>> /\ longBeats = <<>> /\ shortBeats = <<>>
    /\ missed = <<>> /\ extra = <<>>
    /\ artefacts = NoReport
    /\ signal \in signals
    /\ sigIsInt \in BOOLEAN
    /\ sfreq \in rates
    /\ new_sfreq \in rates
    /\ opt = <<>>
    /\ x = <<>> /\ xIsInt = FALSE /\ xAlias = FALSE
    /\ resampled_signal = <<>>
    /\ min_threshold = None /\ max_threshold = None
    /\ peaks_idx = <<>> /\ peaks = <<>> /\ troughs = <<>> /\ bound = {}
    /\ result = <<>>

\* The call reads the keyword argument name: its value is v.
ReadArg(name, v) == opt' = opt @@ (name :> v)

\* The statement that follows the copy of the resampled signal.
AfterResample ==
    IF fn = "ppg_peaks" THEN "clipping"
    ELSE IF fn = "ecg_peaks" THEN "method"
    ELSE "smooth"

\* Lines 122-136, 273-287, 381-395: x = np.asarray(signal), resampled when the
\* two rates differ, and its copy. No NaN is passed, so clean_nan changes nothing.
\* With different rates a rate of 0 divides by zero (len(x) / sfreq,
\* 1 / new_sfreq), and np.interp refuses an empty array of sample points and
\* a time array (np.arange(0, len(x) / sfreq, 1 / sfreq)) that is not as long
\* as x.
ResampleStep ==
    /\ pc = "resample"
    /\ IF sfreq # new_sfreq /\ (sfreq = 0 \/ new_sfreq = 0)
       THEN /\ Raise("ZeroDivisionError")
            /\ x' = signal
            /\ xIsInt' = sigIsInt
            /\ xAlias' = TRUE
            /\ UNCHANGED resampled_signal
       ELSE IF sfreq # new_sfreq
               /\ (Len(signal) = 0 \/ ResampledLen(Len(signal), sfreq, sfreq) # Len(signal))
       THEN /\ Raise("ValueError")
            /\ x' = signal
            /\ xIsInt' = sigIsInt
            /\ xAlias' = TRUE
            /\ UNCHANGED resampled_signal
       ELSE /\ IF sfreq # new_sfreq
               THEN /\ x' = Array(Resample(signal, sfreq, new_sfreq))
                    /\ xIsInt' = FALSE
                    /\ xAlias' = FALSE
               ELSE /\ x' = signal
                    /\ xIsInt' = sigIsInt
                    /\ xAlias' = TRUE
            /\ resampled_signal' = x'
            /\ pc' = AfterResample
            /\ UNCHANGED outcome
    /\ UNCHANGED <<fn, rrVars, signal, callVars, opt, thresholdVars, peakVars, result>>

(***************************************************************************)
(* ppg_peaks: clipping artefacts.                                          *)
(***************************************************************************)
MinOf(xs) == CHOOSE v \in {xs[i] : i \in 1..Len(xs)} : \A i \in 1..Len(xs) : Le(v, xs[i])

MaxOf(xs) == CHOOSE v \in {xs[i] : i \in 1..Len(xs)} : \A i \in 1..Len(xs) : Ge(v, xs[i])

\* systole.utils.find_clipping: each threshold is the extreme value of the
\* signal, or None when no clipping is found at that end.
FindClipping(xs) ==
    IF Len(xs) = 0 THEN {<<None, None>>}
    ELSE {None, MinOf(xs)} \X {None, MaxOf(xs)}

\* Lines 139-152: the thresholds, or the ValueError.
PpgClippingStep ==
    /\ pc = "clipping"
    /\ \E clipping \in BOOLEAN :
       \E spec \in ClippingThresholds :
        /\ opt' = opt @@ ("clipping" :> clipping) @@ ("clipping_thresholds" :> spec)
        /\ IF ~clipping
           THEN /\ pc' = "moving_average"
                /\ UNCHANGED <<outcome, thresholdVars>>
           ELSE IF spec[1] = "auto"
           THEN /\ \E th \in FindClipping(x) :
                    /\ min_threshold' = th[1]
                    /\ max_threshold' = th[2]
                /\ pc' = "clip_max"
                /\ UNCHANGED outcome
           ELSE IF spec[1] = "list"
           THEN /\ min_threshold' = spec[2]
                /\ max_threshold' = spec[3]
                /\ pc' = "clip_max"
                /\ UNCHANGED outcome
           ELSE /\ Raise("ValueError")
                /\ UNCHANGED thresholdVars
    /\ UNCHANGED <<fn, rrVars, signal, callVars, arrayVars, resampled_signal, peakVars,
                   result>>

\* Lines 701-704, 719-722: an edge sample equal to the threshold is moved by
\* delta; an int64 array truncates what it is assigned.
NudgeEdges(xs, th, delta, isInt) ==
    [i \in 1..Len(xs) |->
        IF i \in {1, Len(xs)} /\ xs[i] = th
        THEN (IF isInt THEN Trunc(FAdd(th, delta)) ELSE FAdd(th, delta))
        ELSE xs[i]]

\* np.where(clean_signal < max_threshold)[0], np.where(clean_signal > min_threshold)[0]
Below(xs, th) == {i \in 1..Len(xs) : Lt(xs[i], th)}

Above(xs, th) == {i \in 1..Len(xs) : Gt(xs[i], th)}

\* interp1d(kind="cubic") needs four points, and f(time) raises outside of them.
InterpRaises(n, kept) == Cardinality(kept) < 4 \/ 1 \notin kept \/ n \notin kept

\* f(time): the retained samples, and the level the spline takes at the
\* samples it reconstructs (its values there are not computed: one level for
\* a call, any of ReconValues).
Interpolated(xs, kept, level) ==
    [i \in 1..Len(xs) |-> IF i \in kept THEN xs[i] ELSE level]

\* A security check that falls back on the threshold 0 when given None.
ClipNudgeStep_DefaultThreshold(th, delta, interp, skip) ==
    /\ x' = Array(NudgeEdges(x, IF th = None THEN FromInt(0) ELSE th, delta, xIsInt))
    /\ signal' = IF xAlias THEN x' ELSE signal
    /\ pc' = IF th = None THEN skip ELSE interp
    /\ UNCHANGED <<outcome, xIsInt, xAlias>>

\* Lines 700-704, 718-722: the security check of one threshold; delta is -1 for
\* the maximum, +1 for the minimum. clean_signal is the caller's array as long
\* as no stage has replaced it.
ClipNudgeStep(th, delta, interp, skip) ==
    IF th = None
    THEN /\ pc' = skip
         /\ UNCHANGED <<outcome, signal, arrayVars>>
    ELSE IF Len(x) = 0
    THEN /\ Raise("IndexError")
         /\ UNCHANGED <<signal, arrayVars>>
    ELSE /\ x' = Array(NudgeEdges(x, th, delta, xIsInt))
         /\ signal' = IF xAlias THEN x' ELSE signal
         /\ pc' = interp
         /\ UNCHANGED <<outcome, xIsInt, xAlias>>

\* Lines 706-714, 724-732: the interpolation of one threshold over the
\* retained samples.
ClipInterpolateStep(kept, next) ==
    IF InterpRaises(Len(x), kept)
    THEN /\ Raise("ValueError")
         /\ UNCHANGED arrayVars
    ELSE /\ \E level \in ReconValues :
            x' = Array(Interpolated(x, kept, level))
         /\ xIsInt' = FALSE
         /\ xAlias' = FALSE
         /\ pc' = next
         /\ UNCHANGED outcome

\* Where interpolate_clipping returns to.
AfterClipping == IF fn = "ppg_peaks" THEN "moving_average" ELSE "clip_return"

\* Lines 698-704.
NudgeMaxStep ==
    /\ pc = "clip_max"
    /\ ClipNudgeStep(max_threshold, FromInt(-1), "interp_max", "clip_min")
    /\ UNCHANGED <<fn, rrVars, callVars, opt, resampled_signal, thresholdVars,
                   peakVars, result>>

\* Lines 706-714.
InterpolateMaxStep ==
    /\ pc = "interp_max"
    /\ ClipInterpolateStep(Below(x, max_threshold), "clip_min")
    /\ UNCHANGED <<fn, rrVars, signal, callVars, opt, resampled_signal, thresholdVars,
                   peakVars, result>>

\* Lines 716-722.
NudgeMinStep ==
    /\ pc = "clip_min"
    /\ ClipNudgeStep(min_threshold, FromInt(1), "interp_min", AfterClipping)
    /\ UNCHANGED <<fn, rrVars, callVars, opt, resampled_signal, thresholdVars,
                   peakVars, result>>

\* Lines 724-732.
InterpolateMinStep ==
    /\ pc = "interp_min"
    /\ ClipInterpolateStep(Above(x, min_threshold), AfterClipping)
    /\ UNCHANGED <<fn, rrVars, signal, callVars, opt, resampled_signal, thresholdVars,
                   peakVars, result>>

(***************************************************************************)
(* interpolate_clipping called on its own.                                 *)
(***************************************************************************)
MaxClipSig == 5

ClipSignals == UNION {[1..n -> {FromInt(v) : v \in SigValues}] : n \in 0..MaxClipSig}

\* min_threshold and max_threshold of the call.
ClipMinThresholds == {None, FromInt(0), FromInt(1)}

ClipMaxThresholds == {None, FromInt(1), FromInt(2)}

\* Lines 629-634, 695: the arguments, and clean_signal = np.asarray(signal),
\* which is the caller's array itself.
ClipAsArrayStep ==
    /\ pc = "asarray"
    /\ \E lo \in ClipMinThresholds, hi \in ClipMaxThresholds :
        /\ min_threshold' = lo
        /\ max_threshold' = hi
    /\ x' = signal
    /\ xIsInt' = sigIsInt
    /\ xAlias' = TRUE
    /\ pc' = "clip_max"
    /\ UNCHANGED <<fn, outcome, rrVars, signal, callVars, opt, resampled_signal,
                   peakVars, result>>

\* Line 734: return clean_signal
ClipReturnStep ==
    /\ pc = "clip_return"
    /\ result' = x
    /\ pc' = "done"
    /\ outcome' = "returned"
    /\ UNCHANGED <<fn, rrVars, signal, callVars, opt, arrayVars, resampled_signal,
                   thresholdVars, peakVars>>

InitClip == InitDetector("interpolate_clipping", "asarray", ClipSignals, {1})

NextClip ==
    \/ ClipAsArrayStep
    \/ NudgeMaxStep
    \/ InterpolateMaxStep
    \/ NudgeMinStep
    \/ InterpolateMinStep
    \/ ClipReturnStep

SpecClip == InitClip /\ [][NextClip]_vars

(***************************************************************************)
(* ppg_peaks: smoothing, enhancement, threshold, peaks.                    *)
(***************************************************************************)
\* Line 159
RollingNoise(rate, seconds) == IMax(IntOf(rate, seconds), 1)

\* Lines 157-165: the moving average.
PpgMovingAverageStep ==
    /\ pc = "moving_average"
    /\ \E moving_average \in BOOLEAN :
       \E moving_average_length \in
            IF moving_average THEN MovingAverageLengths ELSE {<<1, 20>>} :
        /\ opt' = opt @@ ("moving_average" :> moving_average)
                      @@ ("moving_average_length" :> moving_average_length)
        /\ IF moving_average
           THEN /\ x' = Array(RollingMean(x, RollingNoise(new_sfreq, moving_average_length)))
                /\ xIsInt' = FALSE
                /\ xAlias' = FALSE
           ELSE UNCHANGED arrayVars
    /\ pc' = "enhance"
    /\ UNCHANGED <<fn, outcome, rrVars, signal, callVars, resampled_signal, thresholdVars,
                   peakVars, result>>

\* np.sign
Sign(v) == IF IsNaN(v) THEN NaN ELSE FromInt(ISign(v[1]))

\* Line 168: (x ** 2) * np.sign(x)
Enhanced(xs) == [i \in 1..Len(xs) |-> FMul(FMul(xs[i], xs[i]), Sign(xs[i]))]

\* Lines 166-168: the enhancement builds a new array of the same dtype.
PpgEnhanceStep ==
    /\ pc = "enhance"
    /\ \E peak_enhancement \in BOOLEAN :
        /\ ReadArg("peak_enhancement", peak_enhancement)
        /\ IF peak_enhancement
           THEN /\ x' = Array(Enhanced(x))
                /\ xAlias' = FALSE
                /\ UNCHANGED xIsInt
           ELSE UNCHANGED arrayVars
    /\ pc' = "threshold"
    /\ UNCHANGED <<fn, outcome, rrVars, signal, callVars, resampled_signal, thresholdVars,
                   peakVars, result>>

\* Mutant of Thresholded: where the rolling mean and deviation are undefined
\* they count as 0.
Thresholded_Filled(xs, w) ==
    LET mean_signal == RollingMean(xs, w)
        var_signal == RollingVar(xs, w)
    IN  [i \in 1..Len(xs) |->
            IF IsNaN(mean_signal[i]) \/ IsNaN(var_signal[i])
            THEN Sample(xs[i], FromInt(0))
            ELSE Sample(FSub(xs[i], mean_signal[i]), var_signal[i])]

\* Lines 171-180: x - (mean_signal + std_signal), sample by sample; the
\* deviation is kept as its square.
Thresholded(xs, w) ==
    LET mean_signal == RollingMean(xs, w)
        var_signal == RollingVar(xs, w)
    IN  [i \in 1..Len(xs) |-> Sample(FSub(xs[i], mean_signal[i]), var_signal[i])]

\* Lines 170-180: the subtraction is done in place: an int64 array cannot take
\* the floats, and an array shared with the caller changes under the caller.
PpgThresholdStep ==
    /\ pc = "threshold"
    /\ \E win \in PpgWins :
        /\ ReadArg("win", win)
        /\ IF xIsInt
           THEN /\ Raise("TypeError")
                /\ UNCHANGED <<x, signal>>
           ELSE /\ x' = Array(Thresholded(x, IntOf(new_sfreq, win)))
                /\ signal' = IF xAlias THEN x' ELSE signal
                /\ pc' = "find_peaks"
                /\ UNCHANGED outcome
    /\ UNCHANGED <<fn, rrVars, callVars, xIsInt, xAlias, resampled_signal, thresholdVars,
                   peakVars, result>>

\* Mutant of PpgPeakVector: the vector is as long as the caller's array.
PpgPeakVector_InputLength(idx) == PeakVector(Len(signal), idx)

\* Lines 186-187
PpgPeakVector(idx) == PeakVector(Len(x), idx)

\* Lines 182-187: find_peaks refuses a distance below 1.
PpgFindPeaksStep ==
    /\ pc = "find_peaks"
    /\ \E distance \in Distances :
        /\ ReadArg("distance", distance)
        /\ IF IntOf(new_sfreq, distance) < 1
           THEN /\ Raise("ValueError")
                /\ UNCHANGED peakVars
           ELSE LET idx == FindPeaks(x, IntOf(new_sfreq, distance))
                IN  /\ peaks_idx' = Ascending(idx)
                    /\ peaks' = PpgPeakVector(idx)
                    /\ bound' = bound \cup {"peaks"}
                    /\ pc' = "clean_extra"
                    /\ UNCHANGED <<outcome, troughs>>
    /\ UNCHANGED <<fn, rrVars, signal, callVars, arrayVars, resampled_signal,
                   thresholdVars, result>>

\* Line 193: np.diff(np.where(peaks)[0])
PeakIntervals(idx) == [k \in 1..(Len(idx) - 1) |-> idx[k + 1] - idx[k]]

\* artefacts["extra"] of rr_artefacts for an int64 series of two intervals or
\* more, the statements of rr_artefacts composed.
RRArtefactsExtra(r) ==
    LET d == Array(FirstDifference(r, TRUE))
        x11 == Array(Normalise(d, Array(Threshold(d))))
        med == Array(RollingMedian(r))
        t2 == Array(Threshold(Array(MedianDeviation(r, med))))
        m == Array(Normalise(Array(MedianDeviation(r, med)), t2))
        x22 == Array(Subspace3(x11))
        ect == Ectopic(x11, Array(Subspace2(x11)))
        short == ClearWhere(Propagated(ShortCondition(r, x11, x22, m), x11), ect)
    IN  MaskAnd(ExtraCandidate(r, med, t2), short)

\* A pruning that clears the peak opening a flagged interval.
Pruned_OpeningPeak(pk, idx, e) ==
    [i \in 1..Len(pk) |-> pk[i] /\ ~(\E k \in 1..Len(e) : e[k] /\ idx[k] = i)]

\* Line 197: peaks[peaks_idx[1:][artefacts["extra"]]] = 0
Pruned(pk, idx, e) ==
    [i \in 1..Len(pk) |-> pk[i] /\ ~(\E k \in 1..Len(e) : e[k] /\ idx[k + 1] = i)]

\* A return of the signal with its peaks enhanced.
PpgResult_Enhanced(pk) == <<Array(Enhanced(resampled_signal)), pk>>

\* Line 199: return resampled_signal, peaks
PpgResult(pk) == <<resampled_signal, pk>>

\* Lines 189-199: with fewer than three peaks rr_artefacts raises: on an empty
\* series dRR[0] does not exist, on a series of one the mean of dRR[1:] is NaN
\* and the int64 array refuses it.
PpgCleanExtraStep ==
    /\ pc = "clean_extra"
    /\ \E clean_extra \in BOOLEAN :
        /\ ReadArg("clean_extra", clean_extra)
        /\ rr' = IF clean_extra THEN PeakIntervals(peaks_idx) ELSE rr
        /\ IF clean_extra /\ Len(peaks_idx) < 2
           THEN /\ Raise("IndexError")
                /\ UNCHANGED <<extra, peaks, result>>
           ELSE IF clean_extra /\ Len(peaks_idx) = 2
           THEN /\ Raise("ValueError")
                /\ UNCHANGED <<extra, peaks, result>>
           ELSE /\ extra' = IF clean_extra THEN RRArtefactsExtra(rr') ELSE extra
                /\ peaks' = IF clean_extra
                            THEN Pruned(peaks, peaks_idx, extra')
                            ELSE peaks
                /\ result' = PpgResult(peaks')
                /\ pc' = "done"
                /\ outcome' = "returned"
    /\ UNCHANGED <<fn, rrIsInt, subspaceVars, ectopic, longBeats, shortBeats,
                   missed, artefacts, signal, callVars, arrayVars,
                   resampled_signal, thresholdVars, peaks_idx, troughs, bound>>

InitPpg ==
    \/ InitDetector("ppg_peaks", "resample", Signals, Rates)
    \/ InitDetector("ppg_peaks", "resample", SpikeTrains, TrainRates)
    \/ InitDetector("ppg_peaks", "resample", EdgeSignals, EdgeRates)

NextPpg ==
    \/ ResampleStep
    \/ PpgClippingStep
    \/ NudgeMaxStep
    \/ InterpolateMaxStep
    \/ NudgeMinStep
    \/ InterpolateMinStep
    \/ PpgMovingAverageStep
    \/ PpgEnhanceStep
    \/ PpgThresholdStep
    \/ PpgFindPeaksStep
    \/ PpgCleanExtraStep

SpecPpg == InitPpg /\ [][NextPpg]_vars

(***************************************************************************)
(* ecg_peaks                                                               *)
(***************************************************************************)
MaxBeats == 1

\* The detectors and the one more name the message of lines 303-305 lists.
Detectors_WithWaveletTransform ==
    {"sleepecg", "hamilton", "christov", "engelse-zeelenberg", "pan-tompkins",
     "wavelet-transform", "moving-average"}

\* The detectors line 289-300 knows by name.
Detectors ==
    {"sleepecg", "hamilton", "christov", "engelse-zeelenberg", "pan-tompkins",
     "moving-average"}

\* The names a caller may pass: the detectors, the one more name the
\* message of line 303-305 lists, and a name found nowhere.
Methods == Detectors \cup {"wavelet-transform", "unknown"}

\* win_size of ecg_peaks (seconds): the default 0.1, and 1.
WinSizes == {<<1, 10>>, <<1, 1>>}

\* What an R-wave detector may answer for a signal of n samples: the detectors
\* are other packages' code; any MaxBeats indices or fewer.
DetectorAnswers(n) == {idx \in SUBSET (1..n) : Cardinality(idx) <= MaxBeats}

\* The names the documentation of plot_raw gives for ecg_method
\* (plot_raw.py, lines 53-57).
PlotRawMethods ==
    {"hamilton", "christov", "engelse-zeelenberg", "pan-tompkins",
     "wavelet-transform", "moving-average"}

\* The call comes from plot_raw, which has passed its ecg_method on.
FromPlotRaw == "ecg_method" \in DOMAIN opt

\* plot_raw.py, lines 181-188 and 202-209: with modality "ecg", plot_raw calls
\* ecg_peaks(method=ecg_method, find_local=True, sfreq=sfreq, **kwargs) and
\* lets its exceptions through.
PlotRawEcgStep ==
    /\ pc = "plot_raw"
    /\ \E ecg_method \in PlotRawMethods : ReadArg("ecg_method", ecg_method)
    /\ fn' = "ecg_peaks"
    /\ pc' = "resample"
    /\ UNCHANGED <<outcome, rrVars, signal, callVars, arrayVars, resampled_signal,
                   thresholdVars, peakVars, result>>

\* Lines 307-308
EcgPeakVector(idx) == PeakVector(Len(resampled_signal), idx)

\* Lines 289-308: the detector named by method, or the ValueError.
EcgDetectStep ==
    /\ pc = "method"
    /\ \E method \in IF FromPlotRaw THEN {opt["ecg_method"]} ELSE Methods :
        /\ ReadArg("method", method)
        /\ IF method \in Detectors
           THEN /\ \E idx \in DetectorAnswers(Len(resampled_signal)) :
                    /\ peaks_idx' = Ascending(idx)
                    /\ peaks' = EcgPeakVector(idx)
                /\ bound' = bound \cup {"peaks"}
                /\ pc' = "find_local"
                /\ UNCHANGED outcome
           ELSE /\ Raise("ValueError")
                /\ UNCHANGED <<peaks_idx, peaks, bound>>
    /\ UNCHANGED <<fn, rrVars, signal, callVars, arrayVars, resampled_signal,
                   thresholdVars, troughs, result>>

\* The first index of the largest sample among those at most size away from i.
LocalMaximum(xs, i, size) ==
    LET near == {j \in 1..Len(xs) : IAbs(j - i) <= size}
    IN  CHOOSE j \in near :
            \A k \in near : Gt(xs[j], xs[k]) \/ (xs[j] = xs[k] /\ j <= k)

\* systole.utils.to_neighbour: every detected index moves to the local maximum
\* of its neighbourhood; the vector keeps its length.
ToNeighbour(xs, pk, size) ==
    [j \in 1..Len(pk) |-> \E i \in 1..Len(pk) : pk[i] /\ LocalMaximum(xs, i, size) = j]

\* Lines 310-313
EcgFindLocalStep ==
    /\ pc = "find_local"
    /\ \E find_local \in IF FromPlotRaw THEN {TRUE} ELSE BOOLEAN :
       \E win_size \in IF find_local THEN WinSizes ELSE {<<1, 10>>} :
        /\ opt' = opt @@ ("find_local" :> find_local) @@ ("win_size" :> win_size)
        /\ peaks' = IF find_local
                    THEN ToNeighbour(resampled_signal, peaks, IntOf(new_sfreq, win_size))
                    ELSE peaks
    /\ result' = <<resampled_signal, peaks'>>
    /\ pc' = "done"
    /\ outcome' = "returned"
    /\ UNCHANGED <<fn, rrVars, signal, callVars, arrayVars, resampled_signal,
                   thresholdVars, peaks_idx, troughs, bound>>

InitEcg ==
    \/ InitDetector("ecg_peaks", "resample", Signals, Rates)
    \/ InitDetector("ecg_peaks", "resample", OddRateSignals, OddRates)

NextEcg ==
    \/ ResampleStep
    \/ EcgDetectStep
    \/ EcgFindLocalStep

SpecEcg == InitEcg /\ [][NextEcg]_vars

\* plot_raw with modality "ecg" on an array.
InitPlotRaw == InitDetector("plot_raw", "plot_raw", Signals, Rates)

NextPlotRaw ==
    \/ PlotRawEcgStep
    \/ ResampleStep
    \/ EcgDetectStep
    \/ EcgFindLocalStep

SpecPlotRaw == InitPlotRaw /\ [][NextPlotRaw]_vars

(***************************************************************************)
(* rsp_peaks                                                               *)
(***************************************************************************)
MaxRspSig == 5

RspValues == {0, 2}

RspRates == {1, 2, 4}

RspSignals == UNION {[1..n -> {FromInt(v) : v \in RspValues}] : n \in 1..MaxRspSig}

\* kind of rsp_peaks: the three kinds, and a name that is none of them.
Kinds == {"peaks", "troughs", "peaks-troughs", "trough"}

\* win of rsp_peaks (seconds): the default 0.025, and 0.5.
RspWins == {<<1, 40>>, <<1, 2>>}

\* Lines 376-379
RspKindStep ==
    /\ pc = "kind"
    /\ \E kind \in Kinds :
        /\ ReadArg("kind", kind)
        /\ IF kind \in {"peaks", "troughs", "peaks-troughs"}
           THEN pc' = "resample" /\ UNCHANGED outcome
           ELSE Raise("ValueError")
    /\ UNCHANGED <<fn, rrVars, signal, callVars, arrayVars, resampled_signal,
                   thresholdVars, peakVars, result>>

\* fillna(method="bfill"): a NaN takes the next value that is not NaN.
RECURSIVE BackFill(_)
BackFill(xs) ==
    IF xs = <<>> THEN <<>>
    ELSE LET rest == BackFill(Tail(xs))
         IN  IF IsNaN(Head(xs)) /\ rest # <<>> THEN <<Head(rest)>> \o rest
             ELSE <<Head(xs)>> \o rest

\* fillna(method="ffill"): a NaN takes the last value that is not NaN.
RECURSIVE ForwardFill(_)
ForwardFill(xs) ==
    IF Len(xs) < 2 THEN xs
    ELSE LET rest == ForwardFill(SubSeq(xs, 1, Len(xs) - 1))
         IN  IF IsNaN(xs[Len(xs)]) THEN Append(rest, rest[Len(rest)])
             ELSE Append(rest, xs[Len(xs)])

\* Lines 398-405: the rolling mean over int(sfreq * win) samples, its gaps filled.
RspSmoothStep ==
    /\ pc = "smooth"
    /\ \E win \in RspWins :
        /\ ReadArg("win", win)
        /\ x' = ForwardFill(BackFill(Array(RollingMean(x, IntOf(sfreq, win)))))
    /\ xIsInt' = FALSE
    /\ xAlias' = FALSE
    /\ pc' = "normalise"
    /\ UNCHANGED <<fn, outcome, rrVars, signal, callVars, resampled_signal, thresholdVars,
                   peakVars, result>>

\* x.std() ** 2: the population variance (ddof=0).
Variance(xs) == IF HasNaN(xs) THEN NaN ELSE FDiv(SumSq(xs, Mean(xs)), FromInt(Len(xs)))

Cube(v) == FMul(v, FMul(v, v))

\* Lines 408-411: ((x - x.mean()) / x.std()) ** 3, held in units of
\* x.std() ** 3: a positive factor common to all samples, which leaves the
\* comparisons of find_peaks as they are. A constant signal has x.std() = 0 and
\* every sample is 0 / 0.
ZScoreCubed(xs) ==
    LET m == Mean(xs)
        v == Variance(xs)
    IN  [i \in 1..Len(xs) |->
            IF IsNaN(v) \/ v[1] = 0 THEN NaN ELSE Cube(FSub(xs[i], m))]

RspNormaliseStep ==
    /\ pc = "normalise"
    /\ x' = Array(ZScoreCubed(x))
    /\ pc' = "find"
    /\ UNCHANGED <<fn, outcome, rrVars, signal, callVars, opt, xIsInt, xAlias,
                   resampled_signal, thresholdVars, peakVars, result>>

Samples(xs) == [i \in 1..Len(xs) |-> Plain(xs[i])]

\* Mutant of Negated: the signal is searched as it is.
Negated_Unchanged(xs) == xs

\* Line 419: -x
Negated(xs) == [i \in 1..Len(xs) |-> FNeg(xs[i])]

\* Lines 415, 419: int(2 * sfreq)
RspDistance == 2 * sfreq

\* Lines 414-421: each vector exists only if kind names it.
RspFindStep ==
    /\ pc = "find"
    /\ IF opt.kind \in {"peaks", "peaks-troughs"}
       THEN LET idx == FindPeaks(Samples(x), RspDistance)
            IN  /\ peaks_idx' = Ascending(idx)
                /\ peaks' = PeakVector(Len(resampled_signal), idx)
       ELSE UNCHANGED <<peaks_idx, peaks>>
    /\ IF opt.kind \in {"troughs", "peaks-troughs"}
       THEN troughs' = PeakVector(Len(resampled_signal),
                                  FindPeaks(Samples(Negated(x)), RspDistance))
       ELSE UNCHANGED troughs
    /\ bound' = (IF opt.kind \in {"peaks", "peaks-troughs"} THEN {"peaks"} ELSE {})
                \cup (IF opt.kind \in {"troughs", "peaks-troughs"} THEN {"troughs"} ELSE {})
    /\ pc' = "return"
    /\ UNCHANGED <<fn, outcome, rrVars, signal, callVars, opt, arrayVars, resampled_signal,
                   thresholdVars, result>>

\* Lines 423-428: only "peaks" has a branch of its own; "troughs" is compared
\* with "trough" and falls to the last branch, which reads peaks and troughs.
RspReturnStep ==
    /\ pc = "return"
    /\ IF opt.kind = "peaks"
       THEN /\ result' = <<resampled_signal, peaks>>
            /\ pc' = "done"
            /\ outcome' = "returned"
       ELSE IF opt.kind = "trough"
       THEN /\ result' = <<resampled_signal, troughs>>
            /\ pc' = "done"
            /\ outcome' = "returned"
       ELSE IF {"peaks", "troughs"} \subseteq bound
       THEN /\ result' = <<resampled_signal, <<peaks, troughs>>>>
            /\ pc' = "done"
            /\ outcome' = "returned"
       ELSE /\ Raise("UnboundLocalError")
            /\ UNCHANGED result
    /\ UNCHANGED <<fn, rrVars, signal, callVars, opt, arrayVars, resampled_signal,
                   thresholdVars, peakVars>>

InitRsp == InitDetector("rsp_peaks", "kind", RspSignals, RspRates)

NextRsp ==
    \/ RspKindStep
    \/ ResampleStep
    \/ RspSmoothStep
    \/ RspNormaliseStep
    \/ RspFindStep
    \/ RspReturnStep

SpecRsp == InitRsp /\ [][NextRsp]_vars

(***************************************************************************)
(* The three detectors together.                                           *)
(***************************************************************************)
InitPeaks == InitPpg \/ InitEcg \/ InitRsp

NextPeaks ==
    \/ ResampleStep
    \/ PpgClippingStep
    \/ NudgeMaxStep
    \/ InterpolateMaxStep
    \/ NudgeMinStep
    \/ InterpolateMinStep
    \/ PpgMovingAverageStep
    \/ PpgEnhanceStep
    \/ PpgThresholdStep
    \/ PpgFindPeaksStep
    \/ PpgCleanExtraStep
    \/ EcgDetectStep
    \/ EcgFindLocalStep
    \/ RspKindStep
    \/ RspSmoothStep
    \/ RspNormaliseStep
    \/ RspFindStep
    \/ RspReturnStep

SpecPeaks == InitPeaks /\ [][NextPeaks]_vars

(***************************************************************************)
(* systole.utils.input_conversion, as the specification and the test       *)
(* test_input_conversion describe it: peak vector, peak indices, intervals *)
(* in milliseconds and in seconds (one sample per millisecond).  The       *)
(* intervals are binary64 numbers, written <<num, den, e>>: the double     *)
(* nearest to num / den, moved by e units in the last place.               *)
(***************************************************************************)
\* The sample indices the peak lists are drawn from: intervals of a few
\* samples and intervals around one second.
IndexValues == {0, 1, 3, 4, 1004}

\* The ascending lists of distinct sample indices (from 0).
PeakIndexLists == {Ascending(S) : S \in (SUBSET IndexValues) \ {{}}}

\* A peak vector that stops short of the last index.
PeaksOf_Short(idx) ==
    [j \in 1..idx[Len(idx)] |-> \E k \in 1..Len(idx) : idx[k] = j - 1]

\* peaks_idx -> peaks: a vector reaching the last index, true at the indices.
PeaksOf(idx) ==
    [j \in 1..(idx[Len(idx)] + 1) |-> \E k \in 1..Len(idx) : idx[k] = j - 1]

\* peaks -> peaks_idx: np.where(peaks)[0]
IndicesOf(pk) == Ascending({j - 1 : j \in {i \in 1..Len(pk) : pk[i]}})

\* peaks_idx -> rr_ms: np.diff(peaks_idx), as floats.
IntervalsOf(idx) == [k \in 1..(Len(idx) - 1) |-> <<idx[k + 1] - idx[k], 1, 0>>]

\* 2^k modulo 1000
PowMod(k) == PowerMod(k, 1000)

\* The j with 1000 <= d * 2^j < 2000, for 1 <= d < 2000: the quotient
\* d / 1000 has the 53-bit significand round(d * 2^(52 + j) / 1000).
Shift(d) == CHOOSE j \in 0..10 : d * 2^j >= 1000 /\ d * 2^j < 2000

\* The number of bits of d.
BitLength(d) == CHOOSE L \in 1..11 : 2^(L - 1) <= d /\ d < 2^L

IsPowerOfTwo(d) == \E L \in 0..10 : d = 2^L

\* 1000 * (the double nearest to d / 1000) - d, in units of 2^-(52 + Shift(d)):
\* the significand is rounded to nearest (a tie cannot happen, as 8 divides
\* d * 2^(52 + j) and does not divide 500).
RoundingError(d) ==
    LET rho == ((d % 1000) * PowMod(52 + Shift(d))) % 1000
    IN  IF rho < 500 THEN -rho ELSE 1000 - rho

\* Half the distance from d to the next double above it, in the same units.
HalfUlp(d) == 2^(Shift(d) + BitLength(d) - 2)

\* The double nearest to 1000 * (the double nearest to d / 1000), in units in
\* the last place away from d: the product d + RoundingError is rounded to
\* nearest, ties to d (whose significand is even); below a power of two the
\* doubles are twice as dense.
UlpsOff(d) ==
    LET r == RoundingError(d)
        H == HalfUlp(d)
    IN  IF r >= 0 THEN (IF r <= H THEN 0 ELSE 1)
        ELSE IF IsPowerOfTwo(d) THEN (IF 2 * (-r) <= H THEN 0 ELSE -1)
        ELSE (IF -r <= H THEN 0 ELSE -1)

\* rr_ms -> rr_s: x / 1000
Seconds(v) == [k \in 1..Len(v) |-> <<v[k][1], v[k][2] * 1000, 0>>]

\* rr_s -> rr_ms: x * 1000
Milliseconds(v) == [k \in 1..Len(v) |-> <<v[k][1], v[k][2] \div 1000, UlpsOff(v[k][1])>>]

\* input_conversion(v, input_type, output_type)
InputConversion(v, input_type, output_type) ==
    IF input_type = "peaks_idx" /\ output_type = "peaks" THEN PeaksOf(v)
    ELSE IF input_type = "peaks" /\ output_type = "peaks_idx" THEN IndicesOf(v)
    ELSE IF input_type = "peaks_idx" /\ output_type = "rr_ms" THEN IntervalsOf(v)
    ELSE IF input_type = "peaks" /\ output_type = "rr_ms" THEN IntervalsOf(IndicesOf(v))
    ELSE IF input_type = "rr_ms" /\ output_type = "rr_s" THEN Seconds(v)
    ELSE IF input_type = "rr_s" /\ output_type = "rr_ms" THEN Milliseconds(v)
    ELSE v

\* The calls of one round: the name the argument was stored under ("input"
\* for the caller's list), input_type, output_type, the name of the result.
Calls ==
    << <<"input", "peaks_idx", "peaks", "peaks">>,
       <<"peaks", "peaks", "peaks_idx", "peaks_idx">>,
       <<"input", "peaks_idx", "rr_ms", "rr_ms">>,
       <<"peaks", "peaks", "rr_ms", "rr_ms_of_peaks">>,
       <<"rr_ms", "rr_ms", "rr_s", "rr_s">>,
       <<"rr_s", "rr_s", "rr_ms", "rr_ms_of_rr_s">> >>

\* The next call of the round; its result is kept under its name.
ConversionStep ==
    /\ pc = "convert"
    /\ LET call == Calls[Cardinality(DOMAIN result) + 1]
           arg == IF call[1] = "input" THEN peaks_idx ELSE result[call[1]]
       IN  /\ result' = result @@ (call[4] :> Array(InputConversion(arg, call[2], call[3])))
           /\ IF Cardinality(DOMAIN result') = Len(Calls)
              THEN pc' = "done" /\ outcome' = "returned"
              ELSE UNCHANGED <<pc, outcome>>
    /\ UNCHANGED <<fn, rrVars, signal, callVars, opt, arrayVars, resampled_signal,
                   thresholdVars, peakVars>>

InitConversion ==
    /\ fn = "input_conversion"
    /\ pc = "convert"
    /\ outcome = "running"
    /\ rr = <<>> /\ rrIsInt = FALSE
    /\ dRR = <<>> /\ th1 = <<>> /\ s11 = <<>>
    /\ medRR = <<>> /\ mRR = <<>> /\ th2 = <<>>
    /\ s12 = <<>> /\ s22 = <<>>
    /\ ectopic = <<>> /\ longBeats = <<>> /\ shortBeats = <<>>
    /\ missed = <<>> /\ extra = <<>>
    /\ artefacts = NoReport
    /\ signal = <<>> /\ sigIsInt = FALSE /\ sfreq = 1 /\ new_sfreq = 1
    /\ opt = <<>>
    /\ x = <<>> /\ xIsInt = FALSE /\ xAlias = FALSE
    /\ resampled_signal = <<>>
    /\ min_threshold = None /\ max_threshold = None
    /\ peaks_idx \in PeakIndexLists
    /\ peaks = <<>> /\ troughs = <<>> /\ bound = {}
    /\ result = <<>>

SpecConversion == InitConversion /\ [][ConversionStep]_vars

(***************************************************************************)
(* systole.plots.plot_shortlong: the dictionary handed to the plotting     *)
(* backend, left in artefacts when the call returns.  input_type keeps its *)
(* default, "rr_ms".                                                       *)
(***************************************************************************)
\* A dictionary the caller holds from an earlier call, on another series.
StaleArtefacts ==
    [subspace1 |-> <<FromInt(0)>>, subspace2 |-> <<FromInt(0)>>,
     subspace3 |-> <<FromInt(0)>>, mRR |-> <<FromInt(0)>>,
     ectopic |-> <<TRUE>>, long |-> <<FALSE>>, short |-> <<FALSE>>,
     missed |-> <<FALSE>>, extra |-> <<FALSE>>,
     threshold1 |-> <<FromInt(1)>>, threshold2 |-> <<FromInt(1)>>]

\* The artefacts argument: None by default.
PassedArtefacts == {None, StaleArtefacts}

IsNone(v) == DOMAIN v = {}

\* Lines 126-132: artefacts are computed only when none are passed.
PlotShortlongStep ==
    /\ pc = "plot_shortlong"
    /\ \E a \in PassedArtefacts :
          /\ ReadArg("artefacts", a)
          /\ IF IsNone(a)
             THEN IF IsNone(rr)
                  THEN /\ Raise("ValueError")
                       /\ UNCHANGED artefacts
                  ELSE /\ pc' = "subspace1"
                       /\ UNCHANGED <<outcome, artefacts>>
             ELSE /\ artefacts' = a
                  /\ pc' = "done"
                  /\ outcome' = "returned"
    /\ UNCHANGED <<fn, rrInputs, subspaceVars, maskVars, signal, callVars, arrayVars,
                   resampled_signal, thresholdVars, peakVars, result>>

InitShortlong ==
    /\ fn = "plot_shortlong"
    /\ pc = "plot_shortlong"
    /\ outcome = "running"
    /\ \/ rr = None /\ rrIsInt = FALSE
       \/ rr \in RRSeries /\ rrIsInt \in BOOLEAN
    /\ dRR = <<>> /\ th1 = <<>> /\ s11 = <<>>
    /\ medRR = <<>> /\ mRR = <<>> /\ th2 = <<>>
    /\ s12 = <<>> /\ s22 = <<>>
    /\ ectopic = <<>> /\ longBeats = <<>> /\ shortBeats = <<>>
    /\ missed = <<>> /\ extra = <<>>
    /\ artefacts = NoReport
    /\ NoDetector

NextShortlong ==
    \/ PlotShortlongStep
    \/ NextRR

SpecShortlong == InitShortlong /\ [][NextShortlong]_vars

(***************************************************************************)
(* systole.plots.plot_raw, lines 215-233: a boolean bad_segments array     *)
(* (False = bad) is turned into a list of (start, end) pairs.  The array   *)
(* is the argument opt["bad_segments"]; result is the local the code       *)
(* rebinds, first to the list of indices and then to the list of pairs.    *)
(***************************************************************************)
MaxBad == 6

\* bad_segments[idx] for a Python index idx, -1 being the last item.
ItemAt(b, idx) == IF idx < 0 THEN b[Len(b) + idx + 1] ELSE b[idx + 1]

\* Lines 223-226: the condition of the list comprehension.
IsEdge(b, idx) ==
    \/ ItemAt(b, idx) /\ ~ItemAt(b, idx - 1)
    \/ ~ItemAt(b, idx) /\ ItemAt(b, idx - 1)
    \/ ~ItemAt(b, idx) /\ idx = 0
    \/ ~ItemAt(b, idx) /\ idx = Len(b) - 1

\* Lines 220-227: the indices kept, in ascending order.
Edges(b) == Ascending({idx \in 0..(Len(b) - 1) : IsEdge(b, idx)})

\* Lines 230-233: range(0, len(bad_segments), 2)
PairStarts(e) == {i \in 0..(Len(e) - 1) : i % 2 = 0}

\* bad_segments[i + 1] is past the end for some i.
PairingRaises(e) == \E i \in PairStarts(e) : i + 1 >= Len(e)

\* Lines 230-233: the list of tuples (start, end).
Pairs(e) == [k \in 1..((Len(e) + 1) \div 2) |-> <<e[2 * k - 1], e[2 * k]>>]

\* Lines 220-227
BadSegmentEdgesStep ==
    /\ pc = "bad_segments"
    /\ result' = Edges(opt["bad_segments"])
    /\ pc' = "pairs"
    /\ UNCHANGED <<fn, outcome, rrVars, signal, callVars, opt, arrayVars, resampled_signal,
                   thresholdVars, peakVars>>

\* Lines 230-233
BadSegmentPairsStep ==
    /\ pc = "pairs"
    /\ IF PairingRaises(result)
       THEN /\ Raise("IndexError")
            /\ UNCHANGED result
       ELSE /\ result' = Pairs(result)
            /\ pc' = "done"
            /\ outcome' = "returned"
    /\ UNCHANGED <<fn, rrVars, signal, callVars, opt, arrayVars, resampled_signal,
                   thresholdVars, peakVars>>

\* plot_raw with peaks given and a boolean array of the signal's length.
InitBadSegments ==
    /\ fn = "plot_raw"
    /\ pc = "bad_segments"
    /\ outcome = "running"
    /\ rr = <<>> /\ rrIsInt = FALSE
    /\ dRR = <<>> /\ th1 = <<>> /\ s11 = <<>>
    /\ medRR = <<>> /\ mRR = <<>> /\ th2 = <<>>
    /\ s12 = <<>> /\ s22 = <<>>
    /\ ectopic = <<>> /\ longBeats = <<>> /\ shortBeats = <<>>
    /\ missed = <<>> /\ extra = <<>>
    /\ artefacts = NoReport
    /\ \E n \in 1..MaxBad :
          /\ signal = [i \in 1..n |-> FromInt(0)]
          /\ peaks = [i \in 1..n |-> FALSE]
          /\ \E b \in [1..n -> BOOLEAN] : opt = ("bad_segments" :> b)
    /\ sigIsInt = FALSE /\ sfreq = 1 /\ new_sfreq = 1
    /\ x = <<>> /\ xIsInt = FALSE /\ xAlias = FALSE
    /\ resampled_signal = <<>>
    /\ min_threshold = None /\ max_threshold = None
    /\ peaks_idx = <<>> /\ troughs = <<>> /\ bound = {}
    /\ result = <<>>

NextBadSegments ==
    \/ BadSegmentEdgesStep
    \/ BadSegmentPairsStep

SpecBadSegments == InitBadSegments /\ [][NextBadSegments]_vars

(***************************************************************************)
(* Properties of the peak detectors.                                       *)
(***************************************************************************)
\* The detector f has returned its tuple.
Returned(f) == fn = f /\ outcome = "returned"

\* rsp_peaks returns the pair (peaks, troughs) unless kind is "peaks".
ReturnsPair == fn = "rsp_peaks" /\ opt.kind # "peaks"

\* The boolean vectors of the returned tuple.
ReturnedVectors == IF ReturnsPair THEN {result[2][1], result[2][2]} ELSE {result[2]}

Marked(v) == {i \in 1..Len(v) : v[i]}

\* C7: whenever ppg_peaks, ecg_peaks or rsp_peaks returns, every boolean vector
\* it returns is exactly as long as the resampled signal it returns with it.
C7_VectorsAsLongAsSignal ==
    (fn \in {"ppg_peaks", "ecg_peaks", "rsp_peaks"} /\ outcome = "returned")
        => \A v \in ReturnedVectors : Len(v) = Len(result[1])

\* C7 happens: ppg_peaks returns a marked peak on a signal that resampling
\* made longer or shorter than the caller's.
C7_Witness ==
    /\ Returned("ppg_peaks")
    /\ sfreq # new_sfreq
    /\ Len(result[1]) # Len(signal)
    /\ Marked(result[2]) # {}

\* C8: rsp_peaks returns without error for each of the three valid kinds:
\* (signal, peaks) for "peaks", (signal, troughs) for "troughs" and
\* (signal, (peaks, troughs)) for "peaks-troughs".
C8_EveryKindReturns ==
    (fn = "rsp_peaks" /\ pc = "done" /\ opt.kind \in {"peaks", "troughs", "peaks-troughs"})
        => /\ outcome = "returned"
           /\ opt.kind = "peaks" => result = <<resampled_signal, peaks>>
           /\ opt.kind = "troughs" => result = <<resampled_signal, troughs>>
           /\ opt.kind = "peaks-troughs" => result = <<resampled_signal, <<peaks, troughs>>>>

\* C9: in every vector rsp_peaks returns, two marked samples are at least
\* 2 * new_sfreq samples apart (2 seconds of the returned signal).
C9_TwoSecondsApart ==
    Returned("rsp_peaks")
        => \A v \in ReturnedVectors : \A i, j \in Marked(v) :
                i < j => j - i >= 2 * new_sfreq

SLe(s, t) == SLt(s, t) \/ SEq(s, t)

\* Sample i of t is inside the series and neither neighbour is higher.
IsLocalMaximum(t, i) ==
    i > 1 /\ i < Len(t) /\ SLe(t[i - 1], t[i]) /\ SLe(t[i + 1], t[i])

\* C10: with clean_extra disabled, every peak ppg_peaks returns is a local
\* maximum of the thresholded signal whose value exceeds zero, and two peaks
\* are at least int(new_sfreq * distance) samples apart.
C10_PeaksArePositiveMaximaApart ==
    (Returned("ppg_peaks") /\ ~opt.clean_extra)
        => /\ \A i \in Marked(result[2]) : IsLocalMaximum(x, i) /\ SPositive(x[i])
           /\ \A i, j \in Marked(result[2]) :
                i < j => j - i >= IntOf(new_sfreq, opt.distance)


\* ppg_peaks has returned from a call with clean_extra enabled.
ReturnedCleaned ==
    /\ Returned("ppg_peaks")
    /\ "clean_extra" \in DOMAIN opt
    /\ opt["clean_extra"]

\* The detected peaks that close an interval rr_artefacts flagged as extra.
ClosingFlagged == {peaks_idx[k + 1] : k \in {j \in 1..Len(extra) : extra[j]}}

Detected == {peaks_idx[k] : k \in 1..Len(peaks_idx)}

\* C11: with clean_extra enabled the vector ppg_peaks returns is the detected
\* peak vector with exactly the peaks cleared that close an interval flagged
\* extra (peak k+1 for interval k): every other entry and the length are
\* unchanged, and the first detected peak stays.
C11_ExactlyClosingPeaksCleared ==
    ReturnedCleaned =>
        /\ Len(extra) = Len(peaks_idx) - 1
        /\ Len(result[2]) = Len(x)
        /\ Marked(result[2]) = Detected \ ClosingFlagged
        /\ peaks_idx[1] \in Marked(result[2])

\* C11 witness: a call with clean_extra enabled has returned after clearing
\* the peak that closes a flagged interval and keeping others.
C11_Witness ==
    /\ ReturnedCleaned
    /\ ClosingFlagged # {}
    /\ Marked(result[2]) = Detected \ ClosingFlagged
    /\ Cardinality(Marked(result[2])) >= 2


\* interpolate_clipping has returned the caller's own array.
ReturnedCallersArray == Returned("interpolate_clipping") /\ xAlias

\* C12: no step of ppg_peaks or interpolate_clipping changes the values of
\* the caller's input array, and the array returned is never the caller's.
C12_InputUntouched == [][signal' = signal /\ ~ReturnedCallersArray']_vars


\* C13: in interpolate_clipping, after the security check of a threshold the
\* first and the last sample are among the samples retained for that bound,
\* so the interpolant covers the indices 0..n-1.
C13_EdgesRetained ==
    /\ pc = "interp_max" => {1, Len(x)} \subseteq Below(x, max_threshold)
    /\ pc = "interp_min" => {1, Len(x)} \subseteq Above(x, min_threshold)


\* A call of interpolate_clipping with both thresholds None.
NoThresholds ==
    /\ fn = "interpolate_clipping"
    /\ pc # "asarray"
    /\ min_threshold = None
    /\ max_threshold = None

\* C14: interpolate_clipping called with min_threshold=None and
\* max_threshold=None leaves its input as it was and returns a signal equal
\* to it, sample for sample.
C14_NoThresholdsIsIdentity ==
    [][NoThresholds' => /\ signal' = signal
                        /\ (outcome' = "returned" => result' = signal')]_vars

\* C14 witness: such a call has returned a signal of several samples, equal
\* to its input.
C14_Witness ==
    /\ NoThresholds
    /\ outcome = "returned"
    /\ Len(result) >= 4
    /\ result = signal
    /\ result[1] = FromInt(0)


\* The call passed a clipping_thresholds that is neither a list or tuple of
\* two, nor None, nor "auto".
InvalidThresholdsPassed ==
    /\ fn = "ppg_peaks"
    /\ "clipping_thresholds" \in DOMAIN opt
    /\ opt["clipping_thresholds"] = <<"scalar">>

\* C15: a call of ppg_peaks with such a clipping_thresholds ends in ValueError
\* at the threshold check: it goes on to no later stage and returns nothing.
C15_InvalidThresholdsRaise ==
    InvalidThresholdsPassed => pc = "done" /\ outcome = "ValueError"


\* The call was given an empty signal or a sampling rate that is not positive.
InvalidInput == Len(signal) = 0 \/ sfreq <= 0 \/ new_sfreq <= 0

\* C16: a call of ppg_peaks, ecg_peaks or rsp_peaks on an empty signal, or
\* with sfreq or new_sfreq zero or negative, never returns a result.
C16_InvalidInputRejected ==
    (fn \in {"ppg_peaks", "ecg_peaks", "rsp_peaks"} /\ InvalidInput)
        => outcome # "returned"


\* The method names the documentation of ecg_peaks gives as supported
\* (lines 224-226).
SupportedMethods ==
    {"sleepecg", "hamilton", "christov", "engelse-zeelenberg", "pan-tompkins",
     "moving-average"}

\* ecg_peaks has read its method argument.
MethodRead == fn = "ecg_peaks" /\ "method" \in DOMAIN opt

C18_DocumentedMethodsAccepted ==
    (FromPlotRaw /\ opt["ecg_method"] \in PlotRawMethods) => outcome # "ValueError"


\* The float vectors of the report: the thresholds, the subspaces and mRR.
FloatKeys == {"threshold1", "threshold2", "subspace1", "subspace2", "subspace3", "mRR"}

\* C19: whenever rr_artefacts returns, every threshold and every subspace and
\* mRR value of its report is a finite number, never NaN nor infinite.
C19_ReportIsFinite ==
    (fn = "rr_artefacts" /\ Reported) =>
        \A key \in FloatKeys :
            \A i \in 1..Len(artefacts[key]) : IsFinite(artefacts[key][i])


\* A finished call of ppg_peaks on a signal of one sample or more, with
\* positive rates and a clipping_thresholds the function accepts.
FinishedOnValidInput ==
    /\ fn = "ppg_peaks"
    /\ pc = "done"
    /\ Len(signal) >= 1
    /\ sfreq > 0
    /\ new_sfreq > 0
    /\ ~InvalidThresholdsPassed

\* C20: ppg_peaks does not crash on short input: for a signal of any length
\* from 1 and every option combination, clean_extra=True with few or no peaks
\* included, it returns a signal and a peak vector, with no peak where the
\* rolling statistics are undefined.
C20_ShortInputReturns ==
    FinishedOnValidInput =>
        /\ outcome = "returned"
        /\ \A i \in Marked(result[2]) : ~SIsNaN(x[i])


\* The input at the new rate: itself when the rates are equal.
ResampledInput ==
    IF sfreq = new_sfreq THEN signal ELSE Array(Resample(signal, sfreq, new_sfreq))

Differences == [k \in 1..(Len(peaks_idx) - 1) |-> <<peaks_idx[k + 1] - peaks_idx[k], 1, 0>>]

\* A round of conversions has returned.
Converted == fn = "input_conversion" /\ outcome = "returned"

BothProvided ==
    /\ fn = "plot_shortlong"
    /\ "artefacts" \in DOMAIN opt
    /\ ~IsNone(opt["artefacts"])
    /\ ~IsNone(rr)

\* plot_shortlong was called with neither rr nor artefacts.
NeitherProvided ==
    /\ fn = "plot_shortlong"
    /\ "artefacts" \in DOMAIN opt
    /\ IsNone(opt["artefacts"])
    /\ IsNone(rr)

\* C23: plot_shortlong called with both rr and artefacts plots the artefacts
\* recomputed from the given rr series, not the ones passed in; called with
\* neither it raises ValueError.
C23_BothProvidedRecomputes ==
    /\ (BothProvided /\ outcome = "returned") =>
          /\ Len(s11) = Len(rr)
          /\ artefacts = Report
          /\ artefacts # opt["artefacts"]
    /\ (NeitherProvided /\ pc = "done") => outcome = "ValueError"

\* What the code does with both: the dictionary passed in is plotted as it is.
PassedArtefactsPlotted ==
    (BothProvided /\ pc = "done") =>
        /\ outcome = "returned"
        /\ artefacts = opt["artefacts"]
        /\ s11 = <<>>

\* The bad_segments array of the call.
BadArray == opt["bad_segments"]

\* The runs of bad samples (Python indices first..last) that no bad sample
\* precedes or follows.
BadRuns ==
    {r \in (0..(Len(BadArray) - 1)) \X (0..(Len(BadArray) - 1)) :
        /\ r[1] <= r[2]
        /\ \A i \in r[1]..r[2] : ~ItemAt(BadArray, i)
        /\ r[1] = 0 \/ ItemAt(BadArray, r[1] - 1)
        /\ r[2] = Len(BadArray) - 1 \/ ItemAt(BadArray, r[2] + 1)}

\* The pair of a run: its first index, and the index where it stops (the
\* first good sample after it, or the last index).
SegmentOf(r) == <<r[1], IF r[2] = Len(BadArray) - 1 THEN r[2] ELSE r[2] + 1>>

\* The bad_segments part of plot_raw is over.
SegmentsDone == fn = "plot_raw" /\ "bad_segments" \in DOMAIN opt /\ pc = "done"

\* C24: plot_raw turns every boolean bad_segments array of the signal's length
\* into a list with exactly one (start, end) pair per maximal run of bad
\* samples, start being the first index of the run and end the index where
\* the run stops, without raising.
C24_OnePairPerRun ==
    SegmentsDone =>
        /\ outcome = "returned"
        /\ Len(result) = Cardinality(BadRuns)
        /\ {result[k] : k \in 1..Len(result)} = {SegmentOf(r) : r \in BadRuns}

\* A label moved forward once: sample i + 1 takes the label of a sample i that
\* held it before the pass when |s11[i + 1]| < |s11[i + 2]|; a label obtained
\* in this way is not moved again.
PropagatedOnce(cond, x11) ==
    [j \in 1..Len(cond) |->
        \/ cond[j]
        \/ /\ j >= 2
           /\ j <= Len(cond) - 1
           /\ cond[j - 1]
           /\ Lt(FAbs(x11[j]), FAbs(x11[j + 1]))]

NoLabelFromPropagation ==
    (fn = "rr_artefacts" /\ pc = "exclude") =>
        /\ longBeats = LongCondition(rr, s11, s22, mRR)
        /\ shortBeats = ShortCondition(rr, s11, s22, mRR)

\* C26: in the report returned by rr_artefacts no sample flagged ectopic is
\* flagged missed or extra.
C26_EctopicNotMissedExtra ==
    Reported =>
        \A i \in 1..Len(rr) :
            artefacts.ectopic[i] => ~artefacts.missed[i] /\ ~artefacts.extra[i]

\* C26 witness: a report with an ectopic sample that met the long condition
\* and the missed test, or the short condition and the extra test: only its
\* removal from the long and short masks keeps it out of missed and extra.
C26_Witness ==
    /\ Reported
    /\ \E i \in 1..Len(rr) :
          /\ artefacts.ectopic[i]
          /\ \/ /\ LongCondition(rr, s11, s22, mRR)[i]
                /\ MissedCandidate(rr, medRR, th2)[i]
             \/ /\ ShortCondition(rr, s11, s22, mRR)[i]
                /\ ExtraCandidate(rr, medRR, th2)[i]
    /\ \E i \in 1..Len(rr) : artefacts.missed[i] \/ artefacts.extra[i]

\* C27: in the report returned by rr_artefacts no sample is flagged both long
\* and short.
C27_LongShortDisjoint ==
    Reported => \A i \in 1..Len(rr) : ~(artefacts.long[i] /\ artefacts.short[i])

\* W = int(new_sfreq * win) of the call.
PpgWindow == IntOf(new_sfreq, opt["win"])

\* floor((W - 1) / 2)
HalfWindow == (PpgWindow - 1) \div 2

\* The Python indices of the half-window margins of the returned signal.
Margins ==
    {i \in 0..(Len(result[1]) - 1) :
        i < HalfWindow \/ i > Len(result[1]) - 1 - HalfWindow}

\* C28: ppg_peaks marks no peak inside the half-window margins of the
\* resampled signal: no index below floor((W - 1) / 2) and no index within
\* the last floor((W - 1) / 2) samples is true in the returned vector.
C28_NoPeakInMargins ==
    Returned("ppg_peaks") => \A i \in Margins : ~result[2][i + 1]

\* C28 witness: a call with margins of two samples or more has returned, and
\* a sample inside a margin that is higher than both its neighbours is not
\* marked.
C28_Witness ==
    /\ Returned("ppg_peaks")
    /\ HalfWindow >= 2
    /\ \E i \in Margins :
          /\ i >= 1
          /\ i <= Len(result[1]) - 2
          /\ Lt(result[1][i], result[1][i + 1])
          /\ Lt(result[1][i + 2], result[1][i + 1])
          /\ ~result[2][i + 1]

\* rsp_peaks has returned the pair asked for with kind = "peaks-troughs".
ReturnedPeaksTroughs == Returned("rsp_peaks") /\ opt["kind"] = "peaks-troughs"

\* C29: in the pair returned by rsp_peaks with kind = "peaks-troughs" no
\* sample is marked both as a peak and as a trough.
C29_PeaksTroughsDisjoint ==
    ReturnedPeaksTroughs =>
        \A i \in 1..Len(result[2][1]) : ~(result[2][1][i] /\ result[2][2][i])

\* C29 witness: a pair with a peak and a trough marked.
C29_Witness ==
    /\ ReturnedPeaksTroughs
    /\ Marked(result[2][1]) # {}
    /\ Marked(result[2][2]) # {}

\* C30: resampling by an integer factor k > 1 of an input of n samples gives
\* exactly k * n samples, sample k * i being input sample i and the last
\* k - 1 samples the final input sample; with equal rates the signal is the
\* input.
C30_ResampledByIntegerFactor ==
    [][(pc = "resample" /\ Len(signal) > 0 /\ sfreq > 0 /\ new_sfreq > 0) =>
          LET n == Len(signal)
              k == new_sfreq \div sfreq
          IN  /\ sfreq = new_sfreq =>
                    /\ outcome' = "running"
                    /\ resampled_signal' = signal
              /\ (new_sfreq % sfreq = 0 /\ k > 1) =>
                    /\ outcome' = "running"
                    /\ Len(resampled_signal') = k * n
                    /\ \A i \in 0..(n - 1) : resampled_signal'[k * i + 1] = signal[i + 1]
                    /\ \A j \in (k * (n - 1) + 1)..(k * n) : resampled_signal'[j] = signal[n]]_vars

====
